---------------------------- MODULE Spec2Model ----------------------------
(***************************************************************************)
(* Spell detection and winter-season aggregation of fmi-weather-history.  *)
(*                                                                         *)
(* Temperatures are integers in hundredths of a degree Celsius, so that    *)
(* round(x, 1) is a real conversion.  Dates are day ordinals (days since   *)
(* 1970-01-01, as in pandas.Timestamp).  A daily series is the pair of     *)
(* sequences (dates, temps) that groupby('date') hands to a detector: one  *)
(* entry per date that has rows, NaN where every row of the day is NaN.    *)
(***************************************************************************)
EXTENDS Integers, Sequences, FiniteSets, TLC

VARIABLES dates,        \* index of the daily frame, in date order
          temps,        \* daily mean of 'Air temperature'
          mins,         \* daily aggregate of 'Minimum temperature'
          maxs,         \* daily aggregate of 'Maximum temperature'
          snows,        \* daily mean of 'Snow depth'
          frame,        \* the data frame df of a driver run, zone by zone
          min_days,     \* min_days / consecutive_days argument of the call
          year,         \* anchor year of the season analysed
          is_current,   \* is_current_season argument
          today,        \* pd.Timestamp.now() of the run
          stations,     \* rows of the data frame per date that has rows
          pc, op,       \* "ready" before the call, "done" after it; the call
          result        \* its return value

vars == <<dates, temps, mins, maxs, snows, frame, min_days, year, is_current, today, stations,
          pc, op, result>>

(***************************************************************************)
(* Bounds of the checked input families                                    *)
(***************************************************************************)
MaxDay == 5        \* calendar days of the exhaustively enumerated series
MaxMin == 6        \* largest min_days / consecutive_days argument tried
MaxRun == 5        \* longest block of equal days in a block-built series
MaxCold == 6       \* longest cold run in a season of the zone frames

(***************************************************************************)
(* Distinguished values                                                    *)
(***************************************************************************)
NaN == 999999      \* float('nan'); only ever tested through isna
None == 0 - 1      \* Python None where a date or a record is expected
Absent == 888888   \* a calendar day without any row in the data frame
NoResult == <<>>   \* Python None where a list holds at most one result record

isna(v) == v = NaN

(***************************************************************************)
(* Program parameters (hundredths of a degree, or days)                    *)
(***************************************************************************)
FROST_THRESHOLD == 0
FROST_MIN_DURATION == 2
WINTER_THRESHOLD_TEMP == 0
WINTER_CONSECUTIVE_DAYS == 5
MIN_COLD_SPELL_DAYS == 3
CONSECUTIVE_DAYS == 5

(***************************************************************************)
(* Calendar: pd.Timestamp(f'{y}-{m}-{d}') and Timestamp.year/.month        *)
(***************************************************************************)
Date(y, m, d) ==
    LET yy  == IF m <= 2 THEN y - 1 ELSE y
        era == yy \div 400
        yoe == yy - era * 400
        mp  == IF m > 2 THEN m - 3 ELSE m + 9
        doy == (153 * mp + 2) \div 5 + d - 1
        doe == yoe * 365 + yoe \div 4 - yoe \div 100 + doy
    IN  era * 146097 + doe - 719468

Civil(z) ==
    LET zz  == z + 719468
        era == zz \div 146097
        doe == zz - era * 146097
        yoe == (doe - doe \div 1460 + doe \div 36524 - doe \div 146096) \div 365
        doy == doe - (365 * yoe + yoe \div 4 - yoe \div 100)
        mp  == (5 * doy + 2) \div 153
        d   == doy - (153 * mp + 2) \div 5 + 1
        m   == IF mp < 10 THEN mp + 3 ELSE mp - 9
        y   == yoe + era * 400 + (IF m <= 2 THEN 1 ELSE 0)
    IN  [year |-> y, month |-> m, day |-> d]

YearOf(z) == Civil(z).year

(***************************************************************************)
(* Arithmetic helpers                                                      *)
(***************************************************************************)
\* nearest integer to n/d (d > 0), ties to even: Python round / numpy rint
RoundRatio(n, d) ==
    LET q == n \div d
        r == n % d
    IN  IF 2 * r < d THEN q
        ELSE IF 2 * r > d THEN q + 1
        ELSE IF q % 2 = 0 THEN q ELSE q + 1

\* round(x, 1) on a value held in hundredths
Round1(x) == 10 * RoundRatio(x, 10)

Min2(a, b) == IF b < a THEN b ELSE a
Max2(a, b) == IF b > a THEN b ELSE a

RECURSIVE SumSeq(_)
SumSeq(s) == IF s = <<>> THEN 0 ELSE Head(s) + SumSeq(Tail(s))

(***************************************************************************)
(* Series construction: groupby('date')[col].mean()                        *)
(* cells[k] describes calendar day day0 + k - 1: Absent, NaN or a value.   *)
(***************************************************************************)
RECURSIVE PresentIdx(_, _)
PresentIdx(cells, k) ==
    IF k > Len(cells) THEN <<>>
    ELSE IF cells[k] = Absent THEN PresentIdx(cells, k + 1)
    ELSE <<k>> \o PresentIdx(cells, k + 1)

GroupDates(cells, day0) ==
    LET idx == PresentIdx(cells, 1)
    IN  [k \in 1..Len(idx) |-> day0 + idx[k] - 1]

GroupValues(cells) ==
    LET idx == PresentIdx(cells, 1)
    IN  [k \in 1..Len(idx) |-> cells[idx[k]]]

(***************************************************************************)
(* find_all_cold_spells                                                    *)
(***************************************************************************)
\* mutation of ColdRunEnd: the run is extended over days at exactly 0
RECURSIVE ColdRunEnd_le(_, _)
ColdRunEnd_le(t, i) ==
    IF i <= Len(t) /\ ~isna(t[i]) /\ t[i] <= WINTER_THRESHOLD_TEMP
    THEN ColdRunEnd_le(t, i + 1)
    ELSE i

\* mutation of ColdRunEnd: a missing value does not stop the run
RECURSIVE ColdRunEnd_skipna(_, _)
ColdRunEnd_skipna(t, i) ==
    IF i <= Len(t) /\ (isna(t[i]) \/ t[i] < WINTER_THRESHOLD_TEMP)
    THEN ColdRunEnd_skipna(t, i + 1)
    ELSE i

\* the inner while: index at which the run that contains i stops
RECURSIVE ColdRunEnd(_, _)
ColdRunEnd(t, i) ==
    IF i <= Len(t) /\ ~isna(t[i]) /\ t[i] < WINTER_THRESHOLD_TEMP
    THEN ColdRunEnd(t, i + 1)
    ELSE i

\* min_temp accumulated by the inner while over t[i..j-1]
RECURSIVE RunMin(_, _, _)
RunMin(t, i, j) ==
    IF i + 1 >= j THEN t[i] ELSE Min2(t[i], RunMin(t, i + 1, j))

RECURSIVE RunMax(_, _, _)
RunMax(t, i, j) ==
    IF i + 1 >= j THEN t[i] ELSE Max2(t[i], RunMax(t, i + 1, j))

\* mutation of ColdKeep: the comparison made strict
ColdKeep_strict(duration, m) == duration > m

ColdKeep(duration, m) == duration >= m

RECURSIVE ColdLoop(_, _, _, _, _)
ColdLoop(t, d, m, i, acc) ==
    IF i > Len(t) THEN acc
    ELSE IF isna(t[i]) THEN ColdLoop(t, d, m, i + 1, acc)
    ELSE IF t[i] < WINTER_THRESHOLD_TEMP
         THEN LET j        == ColdRunEnd(t, i)
                  duration == j - i
                  spell    == [start |-> d[i], end |-> d[j - 1],
                               duration |-> duration,
                               min_temp |-> Round1(RunMin(t, i, j))]
              IN  ColdLoop(t, d, m, j,
                           IF ColdKeep(duration, m) THEN Append(acc, spell)
                           ELSE acc)
         ELSE ColdLoop(t, d, m, i + 1, acc)

\* mutation of find_all_cold_spells: the early return also taken at len = m
find_all_cold_spells_short(t, d, m) ==
    IF Len(t) <= m THEN <<>> ELSE ColdLoop(t, d, m, 1, <<>>)

find_all_cold_spells(t, d, m) ==
    IF Len(t) < m THEN <<>> ELSE ColdLoop(t, d, m, 1, <<>>)

(***************************************************************************)
(* find_all_warm_spells                                                    *)
(***************************************************************************)
RECURSIVE WarmRunEnd(_, _)
WarmRunEnd(t, i) ==
    IF i <= Len(t) /\ ~isna(t[i]) /\ t[i] >= WINTER_THRESHOLD_TEMP
    THEN WarmRunEnd(t, i + 1)
    ELSE i

RECURSIVE WarmLoop(_, _, _, _, _)
WarmLoop(t, d, m, i, acc) ==
    IF i > Len(t) THEN acc
    ELSE IF isna(t[i]) THEN WarmLoop(t, d, m, i + 1, acc)
    ELSE IF t[i] >= WINTER_THRESHOLD_TEMP
         THEN LET j        == WarmRunEnd(t, i)
                  duration == j - i
                  spell    == [start |-> d[i], end |-> d[j - 1],
                               duration |-> duration,
                               max_temp |-> Round1(RunMax(t, i, j))]
              IN  WarmLoop(t, d, m, j,
                           IF duration >= m THEN Append(acc, spell) ELSE acc)
         ELSE WarmLoop(t, d, m, i + 1, acc)

find_all_warm_spells(t, d, m) ==
    IF Len(t) < m THEN <<>> ELSE WarmLoop(t, d, m, 1, <<>>)

(***************************************************************************)
(* find_frost_periods (the series is the daily mean of minimum temperature)*)
(***************************************************************************)
RECURSIVE FrostRunEnd(_, _)
FrostRunEnd(t, i) ==
    IF i <= Len(t) /\ ~isna(t[i]) /\ t[i] < FROST_THRESHOLD
    THEN FrostRunEnd(t, i + 1)
    ELSE i

RECURSIVE FrostLoop(_, _, _, _, _)
FrostLoop(t, d, m, i, acc) ==
    IF i > Len(t) THEN acc
    ELSE IF ~isna(t[i]) /\ t[i] < FROST_THRESHOLD
         THEN LET j         == FrostRunEnd(t, i)
                  duration  == j - i
                  temp_mins == SubSeq(t, i, j - 1)
                  period    == [start |-> d[i], end |-> d[j - 1],
                                duration |-> duration,
                                min_temp |-> Round1(RunMin(t, i, j)),
                                avg_min_temp |->
                                    10 * RoundRatio(SumSeq(temp_mins),
                                                    10 * duration)]
              IN  FrostLoop(t, d, m, j,
                            IF duration >= m THEN Append(acc, period)
                            ELSE acc)
         ELSE FrostLoop(t, d, m, i + 1, acc)

find_frost_periods(t, d, m) == FrostLoop(t, d, m, 1, <<>>)

(***************************************************************************)
(* First-occurrence searches: find_winter_start and the demo's             *)
(* find_period_start                                                       *)
(***************************************************************************)
\* pd.isna(window).any() over t[i..i+n-1]
WindowHasNa(t, i, n) == \E k \in i..(i + n - 1) : isna(t[k])

WindowAllBelow(t, i, n, threshold) ==
    \A k \in i..(i + n - 1) : t[k] < threshold

WindowAllAtLeast(t, i, n, threshold) ==
    \A k \in i..(i + n - 1) : t[k] >= threshold

\* mutation of WinterStartHit: a day at exactly the threshold counts as cold
WinterStartHit_le(t, i, n) ==
    ~WindowHasNa(t, i, n) /\ \A k \in i..(i + n - 1) : t[k] <= WINTER_THRESHOLD_TEMP

WinterStartHit(t, i, n) ==
    ~WindowHasNa(t, i, n) /\ WindowAllBelow(t, i, n, WINTER_THRESHOLD_TEMP)

\* for i in range(len(temps) - n + 1), first hit returns dates[i]
RECURSIVE WinterStartLoop(_, _, _, _)
WinterStartLoop(t, d, n, i) ==
    IF i > Len(t) - n + 1 THEN None
    ELSE IF WinterStartHit(t, i, n) THEN d[i]
    ELSE WinterStartLoop(t, d, n, i + 1)

find_winter_start(t, d, n) ==
    IF Len(t) < n THEN None ELSE WinterStartLoop(t, d, n, 1)

RECURSIVE PeriodStartLoop(_, _, _, _, _, _)
PeriodStartLoop(t, d, threshold, n, below, i) ==
    IF i > Len(t) - n + 1 THEN None
    ELSE IF WindowHasNa(t, i, n)
         THEN PeriodStartLoop(t, d, threshold, n, below, i + 1)
    ELSE IF below /\ WindowAllBelow(t, i, n, threshold) THEN d[i]
    ELSE IF ~below /\ WindowAllAtLeast(t, i, n, threshold) THEN d[i]
    ELSE PeriodStartLoop(t, d, threshold, n, below, i + 1)

find_period_start(t, d, threshold, n, below) ==
    PeriodStartLoop(t, d, threshold, n, below, 1)

(***************************************************************************)
(* Slippery risk: calculate_daily_slippery_risk and find_slippery_periods  *)
(* (risk in hundredths: 0, 50, 100, 150)                                   *)
(***************************************************************************)
FREEZE_THAW_MIN == 0
FREEZE_THAW_MAX == 0
HIGH_RISK_MIN_RANGE == <<0 - 500, 0>>
HIGH_RISK_MAX_RANGE == <<0, 500>>

\* mutation of calculate_daily_slippery_risk: the high-risk ranges closed
calculate_daily_slippery_risk_closed(min_temp, max_temp) ==
    IF isna(min_temp) \/ isna(max_temp) THEN 0
    ELSE IF min_temp < FREEZE_THAW_MIN /\ max_temp > FREEZE_THAW_MAX
         THEN IF /\ HIGH_RISK_MIN_RANGE[1] <= min_temp
                 /\ min_temp <= HIGH_RISK_MIN_RANGE[2]
                 /\ HIGH_RISK_MAX_RANGE[1] <= max_temp
                 /\ max_temp <= HIGH_RISK_MAX_RANGE[2]
              THEN 150
              ELSE 100
    ELSE IF (0 - 200) < min_temp /\ min_temp < 200
            /\ (0 - 200) < max_temp /\ max_temp < 200
         THEN 50
    ELSE 0

calculate_daily_slippery_risk(min_temp, max_temp) ==
    IF isna(min_temp) \/ isna(max_temp) THEN 0
    ELSE IF min_temp < FREEZE_THAW_MIN /\ max_temp > FREEZE_THAW_MAX
         THEN IF /\ HIGH_RISK_MIN_RANGE[1] < min_temp
                 /\ min_temp < HIGH_RISK_MIN_RANGE[2]
                 /\ HIGH_RISK_MAX_RANGE[1] < max_temp
                 /\ max_temp < HIGH_RISK_MAX_RANGE[2]
              THEN 150
              ELSE 100
    ELSE IF (0 - 200) < min_temp /\ min_temp < 200
            /\ (0 - 200) < max_temp /\ max_temp < 200
         THEN 50
    ELSE 0

\* daily.apply(lambda row: calculate_daily_slippery_risk(...), axis=1)
RiskColumn(mn, mx) ==
    [k \in 1..Len(mn) |-> calculate_daily_slippery_risk(mn[k], mx[k])]

RECURSIVE RiskRunEnd(_, _)
RiskRunEnd(risks, i) ==
    IF i <= Len(risks) /\ risks[i] > 0 THEN RiskRunEnd(risks, i + 1) ELSE i

HighRiskCount(risks, i, j) == Cardinality({k \in i..(j - 1) : risks[k] >= 150})

PresentSub(col, i, j) == SelectSeq(SubSeq(col, i, j - 1), LAMBDA v : ~isna(v))

MeanRound1(vals) ==
    IF vals = <<>> THEN None ELSE 10 * RoundRatio(SumSeq(vals), 10 * Len(vals))

RECURSIVE SlipperyLoop(_, _, _, _, _, _, _)
SlipperyLoop(risks, d, mn, mx, m, i, acc) ==
    IF i > Len(risks) THEN acc
    ELSE IF risks[i] > 0
         THEN LET j        == RiskRunEnd(risks, i)
                  duration == j - i
                  period   == [start |-> d[i], end |-> d[j - 1],
                               duration |-> duration,
                               high_risk_days |-> HighRiskCount(risks, i, j),
                               avg_min_temp |-> MeanRound1(PresentSub(mn, i, j)),
                               avg_max_temp |-> MeanRound1(PresentSub(mx, i, j))]
              IN  SlipperyLoop(risks, d, mn, mx, m, j,
                               IF duration >= m THEN Append(acc, period)
                               ELSE acc)
         ELSE SlipperyLoop(risks, d, mn, mx, m, i + 1, acc)

find_slippery_periods(d, mn, mx, m) ==
    SlipperyLoop(RiskColumn(mn, mx), d, mn, mx, m, 1, <<>>)

(***************************************************************************)
(* Weather anomalies: find_extreme_cold, find_cold_snaps, find_heat_waves, *)
(* find_return_winters.  A comparison with NaN is false.                   *)
(***************************************************************************)
COLD_SNAP_THRESHOLD == 0 - 1500
HEAT_WAVE_THRESHOLD == 2500
EXTREME_COLD == 0 - 2500
ANOMALY_CONSECUTIVE_DAYS == 3

LeF(v, th) == ~isna(v) /\ v <= th
GeF(v, th) == ~isna(v) /\ v >= th
LtF(v, th) == ~isna(v) /\ v < th

RECURSIVE ExtremeColdEnd(_, _)
ExtremeColdEnd(t, j) ==
    IF j <= Len(t) /\ LeF(t[j], EXTREME_COLD) THEN ExtremeColdEnd(t, j + 1) ELSE j

RECURSIVE ExtremeColdLoop(_, _, _, _)
ExtremeColdLoop(t, d, i, acc) ==
    IF i > Len(t) THEN acc
    ELSE IF LeF(t[i], EXTREME_COLD)
         THEN LET j == ExtremeColdEnd(t, i)
              IN  ExtremeColdLoop(t, d, j,
                      Append(acc, [start_date |-> d[i], duration_days |-> j - i,
                                   min_temperature |-> RunMin(t, i, j)]))
         ELSE ExtremeColdLoop(t, d, i + 1, acc)

find_extreme_cold(t, d) == ExtremeColdLoop(t, d, 1, <<>>)

RECURSIVE ColdSnapEnd(_, _)
ColdSnapEnd(t, j) ==
    IF j <= Len(t) /\ LeF(t[j], COLD_SNAP_THRESHOLD) THEN ColdSnapEnd(t, j + 1) ELSE j

RECURSIVE ColdSnapLoop_step(_, _, _, _)
ColdSnapLoop_step(t, d, i, acc) ==
    IF i > Len(t) - ANOMALY_CONSECUTIVE_DAYS + 1 THEN acc
    ELSE IF \A k \in i..(i + ANOMALY_CONSECUTIVE_DAYS - 1) :
                LeF(t[k], COLD_SNAP_THRESHOLD)
         THEN LET j == ColdSnapEnd(t, i)
              IN  ColdSnapLoop_step(t, d, i + 1,
                      Append(acc, [start_date |-> d[i], duration_days |-> j - i,
                                   min_temperature |-> RunMin(t, i, j)]))
         ELSE ColdSnapLoop_step(t, d, i + 1, acc)

\* while i < len(daily_avg) - ANOMALY_CONSECUTIVE_DAYS + 1 (i counted from 1)
RECURSIVE ColdSnapLoop(_, _, _, _)
ColdSnapLoop(t, d, i, acc) ==
    IF i > Len(t) - ANOMALY_CONSECUTIVE_DAYS + 1 THEN acc
    ELSE IF \A k \in i..(i + ANOMALY_CONSECUTIVE_DAYS - 1) :
                LeF(t[k], COLD_SNAP_THRESHOLD)
         THEN LET j == ColdSnapEnd(t, i)
              IN  ColdSnapLoop(t, d, j,
                      Append(acc, [start_date |-> d[i], duration_days |-> j - i,
                                   min_temperature |-> RunMin(t, i, j)]))
         ELSE ColdSnapLoop(t, d, i + 1, acc)

find_cold_snaps(t, d) == ColdSnapLoop(t, d, 1, <<>>)

RECURSIVE HeatWaveEnd(_, _)
HeatWaveEnd(t, j) ==
    IF j <= Len(t) /\ GeF(t[j], HEAT_WAVE_THRESHOLD) THEN HeatWaveEnd(t, j + 1) ELSE j

RECURSIVE HeatWaveLoop(_, _, _, _)
HeatWaveLoop(t, d, i, acc) ==
    IF i > Len(t) - ANOMALY_CONSECUTIVE_DAYS + 1 THEN acc
    ELSE IF \A k \in i..(i + ANOMALY_CONSECUTIVE_DAYS - 1) :
                GeF(t[k], HEAT_WAVE_THRESHOLD)
         THEN LET j == HeatWaveEnd(t, i)
              IN  HeatWaveLoop(t, d, j,
                      Append(acc, [start_date |-> d[i], duration_days |-> j - i,
                                   max_temperature |-> RunMax(t, i, j)]))
         ELSE HeatWaveLoop(t, d, i + 1, acc)

find_heat_waves(t, d) == HeatWaveLoop(t, d, 1, <<>>)

\* the rows of a frame whose date lies in [lo, hi], as indices into it
DateSlice(d, lo, hi) == SelectSeq([k \in 1..Len(d) |-> k],
                                  LAMBDA k : lo <= d[k] /\ d[k] <= hi)

Pick(col, idx) == [k \in 1..Len(idx) |-> col[idx[k]]]

\* unique() of the years of a sorted date column, in order of appearance
RECURSIVE UniqueYears(_, _)
UniqueYears(d, k) ==
    IF k > Len(d) THEN <<>>
    ELSE IF k > 1 /\ YearOf(d[k]) = YearOf(d[k - 1]) THEN UniqueYears(d, k + 1)
    ELSE <<YearOf(d[k])>> \o UniqueYears(d, k + 1)

\* for i in range(len(spring_data) - 5 + 1): first window with all(temp >= 0)
RECURSIVE SpringOnset(_, _, _)
SpringOnset(t, d, i) ==
    IF i > Len(t) - 5 + 1 THEN None
    ELSE IF \A k \in i..(i + 4) : GeF(t[k], 0) THEN d[i]
    ELSE SpringOnset(t, d, i + 1)

RECURSIVE ReturnWinterEnd(_, _)
ReturnWinterEnd(t, j) ==
    IF j <= Len(t) /\ LtF(t[j], 0) THEN ReturnWinterEnd(t, j + 1) ELSE j

RECURSIVE ReturnWinterLoop(_, _, _, _, _)
ReturnWinterLoop(t, d, y, i, acc) ==
    IF i > Len(t) - ANOMALY_CONSECUTIVE_DAYS + 1 THEN acc
    ELSE IF \A k \in i..(i + ANOMALY_CONSECUTIVE_DAYS - 1) : LtF(t[k], 0)
         THEN LET j == ReturnWinterEnd(t, i)
              IN  ReturnWinterLoop(t, d, y, j,
                      Append(acc, [year |-> y, start_date |-> d[i],
                                   duration_days |-> j - i,
                                   min_temperature |-> RunMin(t, i, j)]))
         ELSE ReturnWinterLoop(t, d, y, i + 1, acc)

\* mutation of ReturnWintersOfYear: the cold spells of the whole spring are
\* reported once an onset exists
ReturnWintersOfYear_all(t, d, y) ==
    LET spring == DateSlice(d, Date(y, 3, 1), Date(y, 5, 31))
        st     == Pick(t, spring)
        sd     == Pick(d, spring)
        onset  == SpringOnset(st, sd, 1)
    IN  IF Len(spring) < 10 THEN <<>>
        ELSE IF onset = None THEN <<>>
        ELSE ReturnWinterLoop(st, sd, y, 1, <<>>)

\* the body of "for year in years" for one year
ReturnWintersOfYear(t, d, y) ==
    LET spring == DateSlice(d, Date(y, 3, 1), Date(y, 5, 31))
        st     == Pick(t, spring)
        sd     == Pick(d, spring)
        onset  == SpringOnset(st, sd, 1)
        after  == SelectSeq([k \in 1..Len(sd) |-> k], LAMBDA k : sd[k] > onset)
    IN  IF Len(spring) < 10 THEN <<>>
        ELSE IF onset = None THEN <<>>
        ELSE ReturnWinterLoop(Pick(st, after), Pick(sd, after), y, 1, <<>>)

RECURSIVE ReturnWinterYears(_, _, _)
ReturnWinterYears(t, d, years) ==
    IF years = <<>> THEN <<>>
    ELSE ReturnWintersOfYear(t, d, Head(years))
             \o ReturnWinterYears(t, d, Tail(years))

find_return_winters(t, d) == ReturnWinterYears(t, d, UniqueYears(d, 1))

(***************************************************************************)
(* find_temperature_jumps (scripts/analyze_data.py): one event per pair of *)
(* neighbouring entries of the daily means whose change is at least        *)
(* TEMPERATURE_JUMP                                                        *)
(***************************************************************************)
TEMPERATURE_JUMP == 1500

Abs(x) == IF x < 0 THEN 0 - x ELSE x

\* daily_avg.iloc[i+1] - daily_avg.iloc[i]; NaN when either value is missing
TempChange(t, i) ==
    IF isna(t[i]) \/ isna(t[i + 1]) THEN NaN ELSE t[i + 1] - t[i]

\* abs(temp_change) >= TEMPERATURE_JUMP, false on NaN
IsJump(change) == ~isna(change) /\ Abs(change) >= TEMPERATURE_JUMP

RECURSIVE JumpLoop(_, _, _, _)
JumpLoop(t, d, i, acc) ==
    IF i > Len(t) - 1 THEN acc
    ELSE LET temp_change == TempChange(t, i)
         IN  IF IsJump(temp_change)
             THEN JumpLoop(t, d, i + 1,
                      Append(acc, [date |-> d[i],
                                   next_date |-> d[i + 1],
                                   temp_from |-> t[i],
                                   temp_to |-> t[i + 1],
                                   change |-> temp_change,
                                   type |-> IF temp_change > 0
                                            THEN "Akillinen lampeneminen"
                                            ELSE "Akillinen jaahtyminen"]))
             ELSE JumpLoop(t, d, i + 1, acc)

find_temperature_jumps(t, d) == JumpLoop(t, d, 1, <<>>)

(***************************************************************************)
(* analyze_winter_season (scripts/analyze_data.py).  "No summary" (None)   *)
(* is the empty sequence, a summary is a one-element sequence.             *)
(* coverage_pct is held in tenths of a percent, fragmentation_index in     *)
(* hundredths.                                                             *)
(***************************************************************************)
\* mutation of SignificantSpells: every listed cold spell defines the season
SignificantSpells_all(cold_spells) ==
    SelectSeq(cold_spells, LAMBDA sp : sp.duration >= MIN_COLD_SPELL_DAYS)

SignificantSpells(cold_spells) ==
    SelectSeq(cold_spells, LAMBDA sp : sp.duration >= WINTER_CONSECUTIVE_DAYS)

\* mutation of FrostDays: days at exactly 0 counted as frost days
FrostDays_le(season_temps) ==
    Len(SelectSeq(season_temps, LAMBDA v : ~isna(v) /\ v <= WINTER_THRESHOLD_TEMP))

\* (season_temps < WINTER_THRESHOLD_TEMP).sum()
FrostDays(season_temps) ==
    Len(SelectSeq(season_temps, LAMBDA v : ~isna(v) /\ v < WINTER_THRESHOLD_TEMP))

\* round(frost_days / total_days * 100, 1) if total_days > 0 else 0
CoveragePct(frost_days, total_days) ==
    IF total_days > 0 THEN RoundRatio(frost_days * 1000, total_days) ELSE 0

\* mutation of Fragmentation: the ratio truncated to two decimals
Fragmentation_floor(warm_days, total_days) ==
    IF total_days > 0 THEN (warm_days * 100) \div total_days ELSE 0

\* round(warm_days_in_season / total_days, 2) if total_days > 0 else 0
Fragmentation(warm_days, total_days) ==
    IF total_days > 0 THEN RoundRatio(warm_days * 100, total_days) ELSE 0

\* mutation of LongestCold: the last of the longest spells
RECURSIVE LongestCold_last(_, _, _)
LongestCold_last(cold_spells, k, best) ==
    IF k > Len(cold_spells) THEN best
    ELSE LongestCold_last(cold_spells, k + 1,
                          IF cold_spells[k].duration >= best.duration
                          THEN cold_spells[k] ELSE best)

\* max(cold_spells, key=lambda x: x['duration']): the first of the longest
RECURSIVE LongestCold(_, _, _)
LongestCold(cold_spells, k, best) ==
    IF k > Len(cold_spells) THEN best
    ELSE LongestCold(cold_spells, k + 1,
                     IF cold_spells[k].duration > best.duration
                     THEN cold_spells[k] ELSE best)

\* min(s['min_temp'] for s in cold_spells)
RECURSIVE ColdestTemp(_)
ColdestTemp(cold_spells) ==
    IF Len(cold_spells) = 1 THEN cold_spells[1].min_temp
    ELSE Min2(cold_spells[1].min_temp, ColdestTemp(Tail(cold_spells)))

SumDurations(spells) == SumSeq([k \in 1..Len(spells) |-> spells[k].duration])

\* mutation of WinterSummary: the statistics of a current season run to the
\* last day of the data
WinterSummary_open(t, d, y, current, cold_spells, significant_spells) ==
    LET season_start   == significant_spells[1].start
        last_spell_end == significant_spells[Len(significant_spells)].end
        season_end     == IF current THEN None ELSE last_spell_end
        season_mask    == DateSlice(d, season_start,
                                    IF current THEN d[Len(d)] ELSE last_spell_end)
        season_temps   == Pick(t, season_mask)
        total_days     == Len(season_temps)
        frost_days     == FrostDays(season_temps)
        warm_spells    == find_all_warm_spells(season_temps, Pick(d, season_mask),
                                               MIN_COLD_SPELL_DAYS)
        longest_cold   == LongestCold(cold_spells, 2, cold_spells[1])
    IN  [season |-> <<y, y + 1>>,
         season_start |-> season_start,
         season_end |-> season_end,
         total_days |-> total_days,
         frost_days |-> frost_days,
         coverage_pct |-> CoveragePct(frost_days, total_days),
         fragmentation_index |-> Fragmentation(SumDurations(warm_spells), total_days),
         cold_spells_count |-> Len(cold_spells),
         warm_interruptions |-> Len(warm_spells),
         longest_cold_spell_days |-> longest_cold.duration,
         longest_cold_spell_start |-> longest_cold.start,
         coldest_temp |-> ColdestTemp(cold_spells),
         cold_spells |-> cold_spells,
         warm_spells |-> warm_spells]

WinterSummary(t, d, y, current, cold_spells, significant_spells) ==
    LET season_start   == significant_spells[1].start
        last_spell_end == significant_spells[Len(significant_spells)].end
        season_end     == IF current THEN None ELSE last_spell_end
        season_mask    == DateSlice(d, season_start, last_spell_end)
        season_temps   == Pick(t, season_mask)
        total_days     == Len(season_temps)
        frost_days     == FrostDays(season_temps)
        warm_spells    == find_all_warm_spells(season_temps, Pick(d, season_mask),
                                               MIN_COLD_SPELL_DAYS)
        longest_cold   == LongestCold(cold_spells, 2, cold_spells[1])
    IN  [season |-> <<y, y + 1>>,
         season_start |-> season_start,
         season_end |-> season_end,
         total_days |-> total_days,
         frost_days |-> frost_days,
         coverage_pct |-> CoveragePct(frost_days, total_days),
         fragmentation_index |-> Fragmentation(SumDurations(warm_spells), total_days),
         cold_spells_count |-> Len(cold_spells),
         warm_interruptions |-> Len(warm_spells),
         longest_cold_spell_days |-> longest_cold.duration,
         longest_cold_spell_start |-> longest_cold.start,
         coldest_temp |-> ColdestTemp(cold_spells),
         cold_spells |-> cold_spells,
         warm_spells |-> warm_spells]

analyze_winter_season(t, d, y, current) ==
    LET cold_spells == find_all_cold_spells(t, d, MIN_COLD_SPELL_DAYS)
        significant_spells == SignificantSpells(cold_spells)
    IN  IF cold_spells = <<>> THEN NoResult
        ELSE IF significant_spells = <<>> THEN NoResult
        ELSE <<WinterSummary(t, d, y, current, cold_spells, significant_spells)>>

(***************************************************************************)
(* analyze_winter_season of scripts/analyze_winter_start.py, the earlier   *)
(* version: no is_current_season argument.  Its find_all_cold_spells and   *)
(* find_all_warm_spells have the text of the scanners above.               *)
(***************************************************************************)
analyze_winter_season_earlier(t, d, y) ==
    LET cold_spells == find_all_cold_spells(t, d, MIN_COLD_SPELL_DAYS)
        significant_spells ==
            SelectSeq(cold_spells, LAMBDA s : s.duration >= CONSECUTIVE_DAYS)
    IN  IF cold_spells = <<>> THEN NoResult
        ELSE IF significant_spells = <<>> THEN NoResult
        ELSE LET season_start == significant_spells[1].start
                 season_end   == significant_spells[Len(significant_spells)].end
                 season_mask  == DateSlice(d, season_start, season_end)
                 season_temps == Pick(t, season_mask)
                 total_days   == Len(season_temps)
                 frost_days   == FrostDays(season_temps)
                 warm_spells_in_season ==
                     find_all_warm_spells(season_temps, Pick(d, season_mask),
                                          MIN_COLD_SPELL_DAYS)
                 longest_cold == LongestCold(cold_spells, 2, cold_spells[1])
             IN  <<[season |-> <<y, y + 1>>,
                    season_start |-> season_start,
                    season_end |-> season_end,
                    total_days |-> total_days,
                    frost_days |-> frost_days,
                    coverage_pct |-> CoveragePct(frost_days, total_days),
                    fragmentation_index |->
                        Fragmentation(SumDurations(warm_spells_in_season), total_days),
                    cold_spells_count |-> Len(cold_spells),
                    warm_interruptions |-> Len(warm_spells_in_season),
                    longest_cold_spell_days |-> longest_cold.duration,
                    longest_cold_spell_start |-> longest_cold.start,
                    coldest_temp |-> ColdestTemp(cold_spells),
                    cold_spells |-> cold_spells,
                    warm_spells |-> warm_spells_in_season]>>

(***************************************************************************)
(* analyze_winter_by_zone (scripts/analyze_data.py).  d, t are the zone's  *)
(* daily means in date order; each date that has rows has n_rows rows.     *)
(* The return value is [none |-> TRUE] for None, else the list of results. *)
(***************************************************************************)
\* today.year if today.month >= 9 else today.year - 1
CurrentSeasonYear(now) ==
    IF now.month >= 9 THEN now.year ELSE now.year - 1

\* the body of "for year in years" for one year: the results it appends
WinterOfYear(t, d, n_rows, now, y) ==
    LET season    == DateSlice(d, Date(y, 9, 1), Date(y + 1, 5, 31))
        daily_avg == Pick(t, season)
        current   == (y = CurrentSeasonYear(now))
        analysis  == analyze_winter_season(daily_avg, Pick(d, season), y, current)
    IN  IF Len(season) * n_rows < 50 THEN <<>>
        ELSE IF Len(daily_avg) < WINTER_CONSECUTIVE_DAYS THEN <<>>
        ELSE analysis

RECURSIVE WinterYears(_, _, _, _, _)
WinterYears(t, d, n_rows, now, years) ==
    IF years = <<>> THEN <<>>
    ELSE WinterOfYear(t, d, n_rows, now, Head(years))
             \o WinterYears(t, d, n_rows, now, Tail(years))

analyze_winter_by_zone(t, d, n_rows, now) ==
    IF Len(d) * n_rows = 0 THEN [none |-> TRUE, results |-> <<>>]
    ELSE [none |-> FALSE,
          results |-> WinterYears(t, d, n_rows, now, UniqueYears(d, 1))]

(***************************************************************************)
(* find_slippery_season_start and analyze_autumn_slippery_risk             *)
(* (scripts/analyze_data.py).  d, mn, mx, sn are the zone's daily values   *)
(* in date order and each date that has rows has n_rows rows; snow depth   *)
(* is in hundredths of a centimetre.  No result (None) is <<>>.            *)
(***************************************************************************)
SEASON_START_THRESHOLD == 3

SLIPPERY_WINDOW == 7

\* sum(1 for r in window_risks if r > 0)
RiskDays(risks, i, window) ==
    Cardinality({k \in i..(i + window - 1) : risks[k] > 0})

\* mutation of SlipperyStartLoop: windows cut short by the end of the series
\* are scanned too
RECURSIVE SlipperyStartLoop_partial(_, _, _, _, _)
SlipperyStartLoop_partial(risks, d, m, window, i) ==
    IF i > Len(risks) THEN None
    ELSE IF Cardinality({k \in i..Min2(i + window - 1, Len(risks)) :
                             risks[k] > 0}) >= m
         THEN d[i]
    ELSE SlipperyStartLoop_partial(risks, d, m, window, i + 1)

\* for i in range(len(risks) - window + 1)
RECURSIVE SlipperyStartLoop(_, _, _, _, _)
SlipperyStartLoop(risks, d, m, window, i) ==
    IF i > Len(risks) - window + 1 THEN None
    ELSE IF RiskDays(risks, i, window) >= m THEN d[i]
    ELSE SlipperyStartLoop(risks, d, m, window, i + 1)

find_slippery_season_start(risks, d, m, window) ==
    SlipperyStartLoop(risks, d, m, window, 1)

\* snow_and_risk.index.min() if len(snow_and_risk) > 0 else None
FirstSnowAndRisk(d, sn, risks) ==
    LET both == SelectSeq([k \in 1..Len(d) |-> k],
                          LAMBDA k : ~isna(sn[k]) /\ sn[k] > 0 /\ risks[k] > 0)
    IN  IF both = <<>> THEN None ELSE d[both[1]]

analyze_autumn_slippery_risk(d, mn, mx, sn, n_rows, y) ==
    LET mask   == DateSlice(d, Date(y, 9, 1), Date(y, 12, 15))
        dd     == Pick(d, mask)
        dmn    == Pick(mn, mask)
        dmx    == Pick(mx, mask)
        risks  == RiskColumn(dmn, dmx)
        season_start == find_slippery_season_start(risks, dd, SEASON_START_THRESHOLD,
                                                   SLIPPERY_WINDOW)
    IN  IF Len(mask) * n_rows < 30 THEN NoResult
        ELSE IF season_start = None THEN NoResult
        ELSE <<[year |-> y,
                season_start |-> season_start,
                first_snow_and_risk |-> FirstSnowAndRisk(dd, Pick(sn, mask), risks),
                risk_days_total |-> Len(SelectSeq(risks, LAMBDA r : r > 0)),
                high_risk_days |-> Len(SelectSeq(risks, LAMBDA r : r >= 150)),
                slippery_periods |-> find_slippery_periods(dd, dmn, dmx, 2)]>>

(***************************************************************************)
(* analyze_autumn_frost and analyze_autumn_first_snow                      *)
(* (scripts/analyze_data.py), on the zone's daily values as above          *)
(***************************************************************************)
SNOW_THRESHOLD == 100

\* for date, row in daily_data.iterrows(): the index of the first day from i
\* on with a present min_temp < FROST_THRESHOLD, or 0
RECURSIVE FirstFrostFrom_le(_, _)
FirstFrostFrom_le(mn, i) ==
    IF i > Len(mn) THEN 0
    ELSE IF ~isna(mn[i]) /\ mn[i] <= FROST_THRESHOLD THEN i
    ELSE FirstFrostFrom_le(mn, i + 1)

RECURSIVE FirstFrostFrom(_, _)
FirstFrostFrom(mn, i) ==
    IF i > Len(mn) THEN 0
    ELSE IF ~isna(mn[i]) /\ mn[i] < FROST_THRESHOLD THEN i
    ELSE FirstFrostFrom(mn, i + 1)

find_first_frost(mn) == FirstFrostFrom(mn, 1)

\* for date, row in daily.iterrows(): the index of the first day from i on
\* with a present snow_depth >= SNOW_THRESHOLD, or 0
RECURSIVE FirstSnowFrom(_, _)
FirstSnowFrom(sn, i) ==
    IF i > Len(sn) THEN 0
    ELSE IF ~isna(sn[i]) /\ sn[i] >= SNOW_THRESHOLD THEN i
    ELSE FirstSnowFrom(sn, i + 1)

analyze_autumn_frost(d, mn, n_rows, y) ==
    LET mask        == DateSlice(d, Date(y, 8, 1), Date(y, 12, 31))
        dd          == Pick(d, mask)
        dmn         == Pick(mn, mask)
        first_frost == find_first_frost(dmn)
        frost_temps == SelectSeq(dmn, LAMBDA v : ~isna(v) /\ v < FROST_THRESHOLD)
    IN  IF Len(mask) * n_rows < 30 THEN NoResult
        ELSE IF first_frost = 0 THEN NoResult
        ELSE <<[year |-> y,
                first_frost_date |-> dd[first_frost],
                first_frost_temp |-> Round1(dmn[first_frost]),
                frost_nights_total |-> Len(frost_temps),
                avg_frost_temp |-> MeanRound1(frost_temps),
                coldest_temp |-> Round1(RunMin(frost_temps, 1, Len(frost_temps) + 1)),
                frost_periods |-> find_frost_periods(dmn, dd, FROST_MIN_DURATION)]>>

analyze_autumn_first_snow(d, sn, n_rows, y) ==
    LET mask       == DateSlice(d, Date(y, 9, 1), Date(y, 12, 31))
        dd         == Pick(d, mask)
        dsn        == Pick(sn, mask)
        first_snow == FirstSnowFrom(dsn, 1)
        snow_days  == SelectSeq(dsn, LAMBDA v : ~isna(v) /\ v >= SNOW_THRESHOLD)
        present    == SelectSeq(dsn, LAMBDA v : ~isna(v))
    IN  IF Len(mask) * n_rows < 30 THEN NoResult
        ELSE IF first_snow = 0 THEN NoResult
        ELSE <<[year |-> y,
                first_snow_date |-> dd[first_snow],
                first_snow_depth |-> Round1(dsn[first_snow]),
                snow_days_total |-> Len(snow_days),
                max_snow_depth |-> Round1(RunMax(present, 1, Len(present) + 1))]>>

(***************************************************************************)
(* The drivers run_first_frost_analysis, run_winter_analysis,              *)
(* run_slippery_risk_analysis and run_first_snow_analysis                  *)
(* (scripts/analyze_data.py).  The data frame df maps each zone that has   *)
(* rows to its daily values in date order, [dates, air, mins, maxs,        *)
(* snows]; each date that has rows has n_rows rows.  The value returned is *)
(* the list all_results.                                                   *)
(***************************************************************************)
\* zones = ['Etela-Suomi', 'Keski-Suomi', 'Pohjois-Suomi', 'Lappi']
AUTUMN_ZONES == <<"Etela-Suomi", "Keski-Suomi", "Pohjois-Suomi", "Lappi">>

\* the same names as sorted() orders them
SORTED_ZONES == <<"Etela-Suomi", "Keski-Suomi", "Lappi", "Pohjois-Suomi">>

NoRows == [dates |-> <<>>, air |-> <<>>, mins |-> <<>>, maxs |-> <<>>, snows |-> <<>>]

\* df[df['zone_name'] == zone_name]
ZoneData(df, zone) == IF zone \in DOMAIN df THEN df[zone] ELSE NoRows

RECURSIVE SortedSeq(_)
SortedSeq(S) ==
    IF S = {} THEN <<>>
    ELSE LET x == CHOOSE v \in S : \A w \in S : v <= w
         IN  <<x>> \o SortedSeq(S \ {x})

\* sorted(df['date'].dt.year.unique())
FrameYears(df) ==
    SortedSeq(UNION {{YearOf(df[z].dates[i]) : i \in 1..Len(df[z].dates)} :
                         z \in DOMAIN df})

\* result['zone'] = zone_name
AddZone(results, zone) == [k \in 1..Len(results) |-> [zone |-> zone] @@ results[k]]

\* the call of the driver's analysis for one zone and year
Analyse(name, df, n_rows, zone, y) ==
    LET z == ZoneData(df, zone)
    IN  CASE name = "run_first_frost_analysis" ->
                 analyze_autumn_frost(z.dates, z.mins, n_rows, y)
          [] name = "run_slippery_risk_analysis" ->
                 analyze_autumn_slippery_risk(z.dates, z.mins, z.maxs, z.snows,
                                              n_rows, y)
          [] name = "run_first_snow_analysis" ->
                 analyze_autumn_first_snow(z.dates, z.snows, n_rows, y)

\* mutation of DriverLoop: the loops stop at the first zone and year without
\* a result
RECURSIVE DriverLoop_abort(_, _, _, _, _, _, _)
DriverLoop_abort(name, df, n_rows, zones, years, k, acc) ==
    IF k > Len(zones) * Len(years) THEN acc
    ELSE LET zone == zones[((k - 1) \div Len(years)) + 1]
             y    == years[((k - 1) % Len(years)) + 1]
             res  == Analyse(name, df, n_rows, zone, y)
         IN  IF res = NoResult THEN acc
             ELSE DriverLoop_abort(name, df, n_rows, zones, years, k + 1,
                                   acc \o AddZone(res, zone))

\* for zone in zones: for year in years: result = analyze_...(df, zone, year);
\* if result: all_results.append(result)
RECURSIVE DriverLoop(_, _, _, _, _, _, _)
DriverLoop(name, df, n_rows, zones, years, k, acc) ==
    IF k > Len(zones) * Len(years) THEN acc
    ELSE LET zone == zones[((k - 1) \div Len(years)) + 1]
             y    == years[((k - 1) % Len(years)) + 1]
             res  == Analyse(name, df, n_rows, zone, y)
         IN  DriverLoop(name, df, n_rows, zones, years, k + 1,
                        IF res # NoResult THEN acc \o AddZone(res, zone) ELSE acc)

run_first_frost_analysis(df, n_rows) ==
    DriverLoop("run_first_frost_analysis", df, n_rows, AUTUMN_ZONES,
               FrameYears(df), 1, <<>>)

run_slippery_risk_analysis(df, n_rows) ==
    DriverLoop("run_slippery_risk_analysis", df, n_rows, AUTUMN_ZONES,
               FrameYears(df), 1, <<>>)

run_first_snow_analysis(df, n_rows) ==
    DriverLoop("run_first_snow_analysis", df, n_rows, AUTUMN_ZONES,
               FrameYears(df), 1, <<>>)

\* for zone in sorted(df['zone_name'].unique()): zone_results =
\* analyze_winter_by_zone(df, zone); if zone_results: all_results.extend(...)
RECURSIVE WinterZones(_, _, _, _)
WinterZones(df, n_rows, now, zones) ==
    IF zones = <<>> THEN <<>>
    ELSE LET zone == Head(zones)
             zone_results == analyze_winter_by_zone(df[zone].air, df[zone].dates,
                                                    n_rows, now)
         IN  (IF zone_results.none THEN <<>>
              ELSE AddZone(zone_results.results, zone))
                 \o WinterZones(df, n_rows, now, Tail(zones))

run_winter_analysis(df, n_rows, now) ==
    WinterZones(df, n_rows, now,
                SelectSeq(SORTED_ZONES,
                          LAMBDA zone : /\ zone \in DOMAIN df
                                        /\ Len(df[zone].dates) * n_rows > 0))

(***************************************************************************)
(* Series construction from the rows of a zone:                            *)
(* zone_data.groupby('date')['Air temperature'].mean().  A row is          *)
(* <<date, value>>; the rows come in any order, with any number of rows    *)
(* for a date.  No caller of a scanner builds its series in another way,   *)
(* and none of them raises.                                                *)
(***************************************************************************)
GroupKeys_rows(rows) == [k \in 1..Len(rows) |-> rows[k][1]]

\* the group keys: groupby sorts them and keeps each of them once
GroupKeys(rows) == SortedSeq({rows[k][1] : k \in 1..Len(rows)})

\* the values of the rows of one date, in row order; mean() skips NaN
RECURSIVE GroupCells(_, _, _)
GroupCells(rows, date, k) ==
    IF k > Len(rows) THEN <<>>
    ELSE (IF rows[k][1] = date /\ ~isna(rows[k][2]) THEN <<rows[k][2]>> ELSE <<>>)
             \o GroupCells(rows, date, k + 1)

\* mean() of a group, NaN for a group without values (the values of the
\* rows are chosen so that the division is exact)
Mean(vals) == IF vals = <<>> THEN NaN ELSE SumSeq(vals) \div Len(vals)

\* the daily series: one entry per date that has rows
GroupByDate(rows) ==
    LET keys == GroupKeys(rows)
    IN  [dates  |-> keys,
         values |-> [k \in 1..Len(keys) |-> Mean(GroupCells(rows, keys[k], 1))]]

(***************************************************************************)
(* generate_quarters (scripts/fetch_historical_data.py) and the copy of    *)
(* its loop in fetch_date_range_streaming (visualization/backend/          *)
(* server.py).  Dates are day numbers; strftime("%Y-%m-%d") gives the      *)
(* year, month and day of a date.                                          *)
(***************************************************************************)
strftime(z) == Civil(z)

QuarterEnd_lt(current) ==
    LET c == Civil(current)
    IN  IF c.month < 3 THEN Date(c.year, 3, 31)
        ELSE IF c.month < 6 THEN Date(c.year, 6, 30)
        ELSE IF c.month < 9 THEN Date(c.year, 9, 30)
        ELSE Date(c.year, 12, 31)

\* the end of the calendar quarter of current
QuarterEnd(current) ==
    LET c == Civil(current)
    IN  IF c.month <= 3 THEN Date(c.year, 3, 31)
        ELSE IF c.month <= 6 THEN Date(c.year, 6, 30)
        ELSE IF c.month <= 9 THEN Date(c.year, 9, 30)
        ELSE Date(c.year, 12, 31)

\* while current <= end_date
RECURSIVE QuartersLoop(_, _, _)
QuartersLoop(current, end_date, quarters) ==
    IF current > end_date THEN quarters
    ELSE LET quarter_end == IF QuarterEnd(current) > end_date THEN end_date
                            ELSE QuarterEnd(current)
         IN  QuartersLoop(quarter_end + 1, end_date,
                          Append(quarters, <<strftime(current), strftime(quarter_end)>>))

generate_quarters(start_date, end_date) == QuartersLoop(start_date, end_date, <<>>)

\* the loop of fetch_date_range_streaming
RECURSIVE StreamingQuartersLoop(_, _, _)
StreamingQuartersLoop(current, end_dt, quarters) ==
    IF current > end_dt THEN quarters
    ELSE LET month == Civil(current).month
             y     == Civil(current).year
             q_end == IF month <= 3 THEN Date(y, 3, 31)
                      ELSE IF month <= 6 THEN Date(y, 6, 30)
                      ELSE IF month <= 9 THEN Date(y, 9, 30)
                      ELSE Date(y, 12, 31)
             quarter_end == IF q_end > end_dt THEN end_dt ELSE q_end
         IN  StreamingQuartersLoop(quarter_end + 1, end_dt,
                 Append(quarters, <<strftime(current), strftime(quarter_end)>>))

(***************************************************************************)
(* main of scripts/fetch_historical_data.py run with --merge on an         *)
(* existing weather_data_all.csv.  A row is [date, fmisid, origin]; a      *)
(* quarter's fetch fails (fetch_data_for_period returns None) or gives the *)
(* rows FMI has for the days of the quarter.                               *)
(***************************************************************************)
\* all_dataframes, concatenated: the rows of the fetches that succeeded
RECURSIVE ConcatFetched(_, _)
ConcatFetched(fetched, k) ==
    IF k > Len(fetched) THEN <<>>
    ELSE (IF fetched[k].ok THEN fetched[k].rows ELSE <<>>) \o ConcatFetched(fetched, k + 1)

\* drop_duplicates(subset=['date', 'fmisid'], keep='last')
DropDuplicates(rows) ==
    LET keep(k) == \A j \in (k + 1)..Len(rows) :
                       rows[j].date # rows[k].date \/ rows[j].fmisid # rows[k].fmisid
        RECURSIVE From(_)
        From(k) == IF k > Len(rows) THEN <<>>
                   ELSE (IF keep(k) THEN <<rows[k]>> ELSE <<>>) \o From(k + 1)
    IN  From(1)

\* sort_values(by=['date', 'station_name'])
RECURSIVE SortRows(_)
SortRows(rows) ==
    IF rows = <<>> THEN <<>>
    ELSE LET first == CHOOSE k \in 1..Len(rows) :
                          \A j \in 1..Len(rows) :
                              \/ rows[k].date < rows[j].date
                              \/ rows[k].date = rows[j].date /\ rows[k].fmisid <= rows[j].fmisid
         IN  <<rows[first]>>
                 \o SortRows(SubSeq(rows, 1, first - 1) \o SubSeq(rows, first + 1, Len(rows)))

\* the merge branch: what is written to the file
MergeFrames(existing_df, new_df) ==
    LET new_dates    == {new_df[k].date : k \in 1..Len(new_df)}
        new_date_min == CHOOSE d \in new_dates : \A e \in new_dates : d <= e
        new_date_max == CHOOSE d \in new_dates : \A e \in new_dates : d >= e
        preserved_df == SelectSeq(existing_df,
                                  LAMBDA r : r.date < new_date_min \/ r.date > new_date_max)
    IN  SortRows(DropDuplicates(preserved_df \o new_df))

\* the run: nothing is written when no fetch succeeds, and new_df['date']
\* raises before the file is written when the fetches gave no row at all
main_merge(existing_df, fetched) ==
    LET all_dataframes == SelectSeq(fetched, LAMBDA f : f.ok)
        new_df         == ConcatFetched(fetched, 1)
    IN  IF all_dataframes = <<>> THEN [written |-> FALSE, file |-> existing_df, new_df |-> <<>>]
        ELSE IF new_df = <<>> THEN [written |-> FALSE, file |-> existing_df, new_df |-> <<>>]
        ELSE [written |-> TRUE, file |-> MergeFrames(existing_df, new_df), new_df |-> new_df]

(***************************************************************************)
(* main of scripts/fetch_fmi_forecasts.py.  data is the content of the     *)
(* history file, [last_updated, forecasts]; page is what the FMI page      *)
(* gives on this run: fetched is FALSE when fetch_page raises, text is 0    *)
(* when no monthly and no seasonal forecast is parsed and the number of a  *)
(* forecast text otherwise; now is the clock.  An entry keeps the fetch    *)
(* time, the hash and the forecast.                                        *)
(***************************************************************************)
\* md5(...).hexdigest()[:12]: a short digest, equal for some different texts
compute_content_hash(forecasts) == forecasts % 3

KeepNewest_53(forecasts) ==
    SubSeq(forecasts, 1, Min2(53, Len(forecasts)))

\* data["forecasts"][:52]
KeepNewest(forecasts) ==
    SubSeq(forecasts, 1, Min2(52, Len(forecasts)))

\* the value returned and the content of the file after the run
main_forecasts(data, page, now) ==
    IF ~page.fetched THEN [code |-> 1, data |-> data]
    ELSE IF page.text = 0 THEN [code |-> 1, data |-> data]
    ELSE LET content_hash == compute_content_hash(page.text)
             new_entry == [fetched_at |-> now, content_hash |-> content_hash,
                           forecast |-> page.text]
         IN  IF data.forecasts # <<>> /\ data.forecasts[1].content_hash = content_hash
             THEN [code |-> 0, data |-> [data EXCEPT !.last_updated = now]]
             ELSE [code |-> 0,
                   data |-> [last_updated |-> now,
                             forecasts |-> KeepNewest(<<new_entry>> \o data.forecasts)]]

(***************************************************************************)
(* Specification Spec: the scanners on every short daily series            *)
(***************************************************************************)
Cells == {Absent, NaN, 0 - 512, 0 - 100, 0, 230}

Day0 == Date(2023, 12, 30)

SmallCellSeqs == UNION {[1..n -> Cells] : n \in 0..MaxDay}

\* the series of the documented scenario, and each series that differs from
\* it in one calendar day
ScenarioCells == <<100, 0 - 100, 0 - 200, 0 - 300, 0 - 400, 0 - 500, 200>>

ScenarioDay0 == Date(2024, 1, 1)

ScenarioVariants ==
    {[ScenarioCells EXCEPT ![k] = c] : k \in 1..Len(ScenarioCells),
                                       c \in Cells \cup {ScenarioCells[1]}}

Unused == <<>>

InitScan ==
    /\ \/ \E cells \in SmallCellSeqs :
              /\ dates = GroupDates(cells, Day0)
              /\ temps = GroupValues(cells)
       \/ \E cells \in ScenarioVariants :
              /\ dates = GroupDates(cells, ScenarioDay0)
              /\ temps = GroupValues(cells)
    /\ mins = Unused
    /\ maxs = Unused
    /\ snows = Unused
    /\ frame = Unused
    /\ min_days = 0
    /\ year = 0
    /\ is_current = FALSE
    /\ today = Unused
    /\ stations = 0
    /\ pc = "ready"
    /\ op = "none"
    /\ result = Unused

Return(name, m, value) ==
    /\ pc = "ready"
    /\ pc' = "done"
    /\ op' = name
    /\ min_days' = m
    /\ result' = value
    /\ UNCHANGED <<dates, temps, mins, maxs, snows, frame, year, is_current, today, stations>>

FindAllColdSpells ==
    \E m \in 1..MaxMin :
        Return("find_all_cold_spells", m, find_all_cold_spells(temps, dates, m))

FindAllWarmSpells ==
    \E m \in 1..MaxMin :
        Return("find_all_warm_spells", m, find_all_warm_spells(temps, dates, m))

FindFrostPeriods ==
    \E m \in 1..MaxMin :
        Return("find_frost_periods", m, find_frost_periods(temps, dates, m))

FindWinterStart ==
    \E m \in 1..MaxMin :
        Return("find_winter_start", m, find_winter_start(temps, dates, m))

FindPeriodStart ==
    \E m \in 1..MaxMin :
        Return("find_period_start", m,
               find_period_start(temps, dates, WINTER_THRESHOLD_TEMP, m, TRUE))

NextScan ==
    \/ FindAllColdSpells
    \/ FindAllWarmSpells
    \/ FindFrostPeriods
    \/ FindWinterStart
    \/ FindPeriodStart

Spec == InitScan /\ [][NextScan]_vars

(***************************************************************************)
(* Specification SpecDetectors: every run detector on daily frames built   *)
(* from three blocks of equal days.  A day is a row <<air mean, minimum,   *)
(* maximum>> or has no row at all.                                         *)
(***************************************************************************)
AbsentRow == <<Absent, Absent, Absent>>

DayRows ==
    { AbsentRow,
      <<NaN, NaN, NaN>>,
      <<0 - 100, 0 - 300, 200>>,
      <<0 - 100, 0 - 300, NaN>>,
      <<0 - 1600, 0 - 2600, 0 - 900>>,
      <<1500, 100, 2600>>,
      <<50, 0 - 100, 150>> }

Blocks == DayRows \X (1..MaxRun)

Expand(b) == [k \in 1..b[2] |-> b[1]]

BlockRows == {Expand(b[1]) \o Expand(b[2]) \o Expand(b[3]) : b \in Blocks \X Blocks \X Blocks}

Column(rows, c) == [k \in 1..Len(rows) |-> rows[k][c]]

DetDay0 == Date(2024, 2, 29)

InitDetectors ==
    /\ \E rows \in BlockRows :
           /\ dates = GroupDates(Column(rows, 1), DetDay0)
           /\ temps = GroupValues(Column(rows, 1))
           /\ mins = GroupValues(Column(rows, 2))
           /\ maxs = GroupValues(Column(rows, 3))
    /\ snows = Unused
    /\ frame = Unused
    /\ min_days = 0
    /\ year = 0
    /\ is_current = FALSE
    /\ today = Unused
    /\ stations = 0
    /\ pc = "ready"
    /\ op = "none"
    /\ result = Unused

DetectColdSpells ==
    \E m \in {1, MIN_COLD_SPELL_DAYS} :
        Return("find_all_cold_spells", m, find_all_cold_spells(temps, dates, m))

DetectWarmSpells ==
    \E m \in {1, MIN_COLD_SPELL_DAYS} :
        Return("find_all_warm_spells", m, find_all_warm_spells(temps, dates, m))

DetectFrostPeriods ==
    \E m \in {1, FROST_MIN_DURATION} :
        Return("find_frost_periods", m, find_frost_periods(mins, dates, m))

DetectSlipperyPeriods ==
    Return("find_slippery_periods", 2, find_slippery_periods(dates, mins, maxs, 2))

DetectExtremeCold ==
    Return("find_extreme_cold", 1, find_extreme_cold(mins, dates))

DetectColdSnaps ==
    Return("find_cold_snaps", ANOMALY_CONSECUTIVE_DAYS, find_cold_snaps(temps, dates))

DetectHeatWaves ==
    Return("find_heat_waves", ANOMALY_CONSECUTIVE_DAYS, find_heat_waves(maxs, dates))

DetectReturnWinters ==
    Return("find_return_winters", ANOMALY_CONSECUTIVE_DAYS,
           find_return_winters(temps, dates))

DetectTemperatureJumps ==
    Return("find_temperature_jumps", 1, find_temperature_jumps(temps, dates))

NextDetectors ==
    \/ DetectTemperatureJumps
    \/ DetectColdSpells
    \/ DetectWarmSpells
    \/ DetectFrostPeriods
    \/ DetectSlipperyPeriods
    \/ DetectExtremeCold
    \/ DetectColdSnaps
    \/ DetectHeatWaves
    \/ DetectReturnWinters

SpecDetectors == InitDetectors /\ [][NextDetectors]_vars

(***************************************************************************)
(* Specification SpecSeason: analyze_winter_season on the daily means of   *)
(* one season built from three blocks of equal days                        *)
(***************************************************************************)
SeasonBlocks == Cells \X (1..MaxRun)

SeasonCellSeqs ==
    {Expand(b[1]) \o Expand(b[2]) \o Expand(b[3]) :
         b \in SeasonBlocks \X SeasonBlocks \X SeasonBlocks}

\* two long cold spells around a shorter middle part that is interrupted on
\* both sides, with or without three days at 0 after the last spell
SeasonInterrupted ==
    {Expand(<<0 - 100, 5>>) \o Expand(<<w[1], n[1]>>) \o Expand(<<0 - 512, n[2]>>)
         \o Expand(<<w[2], n[3]>>) \o Expand(<<0 - 100, 5>>) \o tail :
         w \in {0, 230, NaN} \X {0, 230}, n \in (2..3) \X {1, 3, 5} \X (2..4),
         tail \in {<<>>, <<0, 0, 0>>}}

SeasonYear == 2023

InitSeason ==
    /\ \E cells \in SeasonCellSeqs \cup SeasonInterrupted :
           /\ dates = GroupDates(cells, Day0)
           /\ temps = GroupValues(cells)
    /\ mins = Unused
    /\ maxs = Unused
    /\ snows = Unused
    /\ frame = Unused
    /\ min_days = 0
    /\ year = SeasonYear
    /\ is_current = FALSE
    /\ today = Unused
    /\ stations = 0
    /\ pc = "ready"
    /\ op = "none"
    /\ result = Unused

AnalyzeWinterSeason ==
    \E current \in BOOLEAN :
        /\ pc = "ready"
        /\ pc' = "done"
        /\ op' = "analyze_winter_season"
        /\ is_current' = current
        /\ result' = analyze_winter_season(temps, dates, year, current)
        /\ UNCHANGED <<dates, temps, mins, maxs, snows, frame, min_days, year, today, stations>>

NextSeason == AnalyzeWinterSeason

SpecSeason == InitSeason /\ [][NextSeason]_vars

(***************************************************************************)
(* Specification SpecZone: analyze_winter_by_zone on a zone frame with     *)
(* data around the turn of 2024/2025 and from 31 Aug 2025 on, run at any   *)
(* month of 2024..2026.  A season's data is a cold run followed by at most *)
(* one warmer or missing day.                                              *)
(***************************************************************************)
ZonePieces ==
    {Expand(<<0 - 500, n>>) \o tail :
         n \in 0..MaxCold, tail \in {<<>>, <<100>>, <<NaN>>}}

ZoneDayA == Date(2024, 12, 29)
ZoneDayB == Date(2025, 8, 31)

TodayYears == 2024..2026

StationCounts == {5, 10}

InitZone ==
    /\ \E a \in ZonePieces, b \in ZonePieces :
           /\ dates = GroupDates(a, ZoneDayA) \o GroupDates(b, ZoneDayB)
           /\ temps = GroupValues(a) \o GroupValues(b)
    /\ stations \in StationCounts
    /\ mins = Unused
    /\ maxs = Unused
    /\ snows = Unused
    /\ frame = Unused
    /\ min_days = 0
    /\ year = 0
    /\ is_current = FALSE
    /\ today = Unused
    /\ pc = "ready"
    /\ op = "none"
    /\ result = Unused

\* one run of the driver; today is read from the clock
AnalyzeWinterByZone ==
    \E y \in TodayYears, m \in 1..12 :
        /\ pc = "ready"
        /\ pc' = "done"
        /\ op' = "analyze_winter_by_zone"
        /\ today' = [year |-> y, month |-> m]
        /\ result' = analyze_winter_by_zone(temps, dates, stations, today')
        /\ UNCHANGED <<dates, temps, mins, maxs, snows, frame, min_days, year, is_current, stations>>

\* a second run of the driver on the same frame, at the same or another
\* moment: in February, July or October
AnalyzeWinterByZoneAgain ==
    \E y \in TodayYears, m \in {2, 7, 10} :
        /\ pc = "done"
        /\ pc' = "again"
        /\ today' = [year |-> y, month |-> m]
        /\ result' = analyze_winter_by_zone(temps, dates, stations, today')
        /\ UNCHANGED <<dates, temps, mins, maxs, snows, frame, min_days, year,
                       is_current, stations, op>>

NextZone ==
    \/ AnalyzeWinterByZone
    \/ AnalyzeWinterByZoneAgain

SpecZone == InitZone /\ [][NextZone]_vars

(***************************************************************************)
(* Specification SpecRisk: the risk column of a daily frame of one or two  *)
(* days, the night minimum and day maximum taken around every threshold    *)
(* of calculate_daily_slippery_risk                                        *)
(***************************************************************************)
RiskTemps ==
    {NaN, 0 - 600, 0 - 500, 0 - 499, 0 - 300, 0 - 200, 0 - 199, 0 - 1, 0,
     1, 199, 200, 300, 499, 500, 600}

InitRisk ==
    /\ \/ /\ mins \in [1..1 -> RiskTemps]
          /\ maxs \in [1..1 -> RiskTemps]
       \/ /\ mins \in [1..2 -> {NaN, 0 - 500, 0 - 100, 100, 300}]
          /\ maxs \in [1..2 -> {NaN, 0 - 500, 0 - 100, 100, 300}]
    /\ dates = [k \in 1..Len(mins) |-> Date(2024, 10, 1) + k - 1]
    /\ temps = Unused
    /\ snows = Unused
    /\ frame = Unused
    /\ min_days = 0
    /\ year = 0
    /\ is_current = FALSE
    /\ today = Unused
    /\ stations = 0
    /\ pc = "ready"
    /\ op = "none"
    /\ result = Unused

\* daily['risk'] = daily.apply(calculate_daily_slippery_risk(min, max))
CalculateDailySlipperyRisk ==
    /\ pc = "ready"
    /\ pc' = "done"
    /\ op' = "calculate_daily_slippery_risk"
    /\ result' = RiskColumn(mins, maxs)
    /\ UNCHANGED <<dates, temps, mins, maxs, snows, frame, min_days, year, is_current, today,
                   stations>>

NextRisk == CalculateDailySlipperyRisk

SpecRisk == InitRisk /\ [][NextRisk]_vars

(***************************************************************************)
(* Specification SpecSlippery: the slippery season of one autumn, on every *)
(* short run of days that are icy (freeze-thaw near zero, snow on the      *)
(* ground), near zero all day, or mild, starting on the day before the     *)
(* analysed period or one week before its end                              *)
(***************************************************************************)
MaxWeek == 8

\* a day is <<minimum, maximum, snow depth>>: icy, near zero, mild
SlipperyDays == {<<0 - 300, 200, 200>>, <<50, 150, 0>>, <<500, 1200, 0>>}

SlipperyYear == 2024

SlipperyDay0s == {Date(SlipperyYear, 8, 31), Date(SlipperyYear, 12, 9)}

InitSlippery ==
    /\ \E n \in 0..MaxWeek, day0 \in SlipperyDay0s :
           \E rows \in [1..n -> SlipperyDays] :
               /\ dates = [k \in 1..n |-> day0 + k - 1]
               /\ mins = Column(rows, 1)
               /\ maxs = Column(rows, 2)
               /\ snows = Column(rows, 3)
    /\ stations \in {4, 5}
    /\ temps = Unused
    /\ frame = Unused
    /\ min_days = 0
    /\ year = SlipperyYear
    /\ is_current = FALSE
    /\ today = Unused
    /\ pc = "ready"
    /\ op = "none"
    /\ result = Unused

\* find_slippery_season_start(daily) on the whole frame, default arguments
FindSlipperySeasonStart ==
    Return("find_slippery_season_start", SEASON_START_THRESHOLD,
           find_slippery_season_start(RiskColumn(mins, maxs), dates,
                                      SEASON_START_THRESHOLD, SLIPPERY_WINDOW))

AnalyzeAutumnSlipperyRisk ==
    Return("analyze_autumn_slippery_risk", SEASON_START_THRESHOLD,
           analyze_autumn_slippery_risk(dates, mins, maxs, snows, stations, year))

NextSlippery ==
    \/ FindSlipperySeasonStart
    \/ AnalyzeAutumnSlipperyRisk

SpecSlippery == InitSlippery /\ [][NextSlippery]_vars

(***************************************************************************)
(* Specification SpecAutumn: the four drivers on a data frame of two       *)
(* zones.  Pohjois-Suomi has rows from 30 Aug 2023 and from 30 Aug 2024,   *)
(* Lappi from 30 Aug 2024 only; the rows of a zone and year are no days at *)
(* all, or a week or a month of equal days.                                *)
(***************************************************************************)
\* a day is <<air mean, minimum, maximum, snow depth>>
AutumnDays ==
    { <<0 - 500, 0 - 800, 0 - 200, 200>>,
      <<0 - 100, 0 - 300, 200, 0>>,
      <<800, 500, 1200, 0>> }

AutumnPieces ==
    {<<>>} \cup {Expand(<<day, n>>) : day \in AutumnDays,
                                      n \in {MaxWeek - 2, MaxWeek, 30}}

AutumnDay0(y) == Date(y, 8, 30)

\* the daily values of a zone from its pieces of 2023 and 2024
ZoneFrame(a, b) ==
    LET rows == a \o b
    IN  [dates |-> [k \in 1..Len(rows) |->
                       IF k <= Len(a) THEN AutumnDay0(2023) + k - 1
                       ELSE AutumnDay0(2024) + (k - Len(a)) - 1],
         air   |-> Column(rows, 1),
         mins  |-> Column(rows, 2),
         maxs  |-> Column(rows, 3),
         snows |-> Column(rows, 4)]

\* the zones of the pieces that hold rows
FrameOf(a, b, c) ==
    LET all == [zone \in {"Pohjois-Suomi", "Lappi"} |->
                   IF zone = "Lappi" THEN ZoneFrame(<<>>, c) ELSE ZoneFrame(a, b)]
    IN  [zone \in {z \in DOMAIN all : all[z].dates # <<>>} |-> all[zone]]

InitAutumn ==
    /\ \E a \in AutumnPieces, b \in AutumnPieces, c \in AutumnPieces :
           frame = FrameOf(a, b, c)
    /\ stations \in {4, 10}
    /\ dates = Unused
    /\ temps = Unused
    /\ mins = Unused
    /\ maxs = Unused
    /\ snows = Unused
    /\ min_days = 0
    /\ year = 0
    /\ is_current = FALSE
    /\ today = Unused
    /\ pc = "ready"
    /\ op = "none"
    /\ result = Unused

RunDriver(name, value) ==
    /\ pc = "ready"
    /\ pc' = "done"
    /\ op' = name
    /\ result' = value
    /\ UNCHANGED <<dates, temps, mins, maxs, snows, frame, min_days, year,
                   is_current, stations>>

RunFirstFrostAnalysis ==
    /\ RunDriver("run_first_frost_analysis", run_first_frost_analysis(frame, stations))
    /\ UNCHANGED today

RunSlipperyRiskAnalysis ==
    /\ RunDriver("run_slippery_risk_analysis",
                 run_slippery_risk_analysis(frame, stations))
    /\ UNCHANGED today

RunFirstSnowAnalysis ==
    /\ RunDriver("run_first_snow_analysis", run_first_snow_analysis(frame, stations))
    /\ UNCHANGED today

\* today is read from the clock by analyze_winter_by_zone
RunWinterAnalysis ==
    \E now \in {[year |-> 2024, month |-> 10], [year |-> 2025, month |-> 10]} :
        /\ today' = now
        /\ RunDriver("run_winter_analysis", run_winter_analysis(frame, stations, now))

NextAutumn ==
    \/ RunFirstFrostAnalysis
    \/ RunWinterAnalysis
    \/ RunSlipperyRiskAnalysis
    \/ RunFirstSnowAnalysis

SpecAutumn == InitAutumn /\ [][NextAutumn]_vars

(***************************************************************************)
(* Specification SpecRows: the detectors that build their daily series     *)
(* from the rows of a zone, on rows in any order.  A day has no row, one   *)
(* row or two rows; each row stands for one row of every station.          *)
(***************************************************************************)
\* the values of the rows of a day
RowDays == { <<>>, <<0 - 2400>>, <<600>>, <<0 - 2400, 0 - 1200>>, <<NaN, 0 - 2400>> }

RECURSIVE RowsFrom(_, _, _)
RowsFrom(days, day0, k) ==
    IF k > Len(days) THEN <<>>
    ELSE [j \in 1..Len(days[k]) |-> <<day0 + k - 1, days[k][j]>>]
             \o RowsFrom(days, day0, k + 1)

\* the order of the rows in the frame: by date, latest first, or every
\* second row first
Reorder(rows, how) ==
    LET n    == Len(rows)
        half == (n + 1) \div 2
    IN  CASE how = "sorted"      -> rows
          [] how = "reversed"    -> [k \in 1..n |-> rows[n + 1 - k]]
          [] how = "interleaved" -> [k \in 1..n |-> IF k <= half THEN rows[2 * k - 1]
                                                   ELSE rows[2 * (k - half)]]

InitRows ==
    /\ \E n \in 3..MaxDay :
           \E days \in [1..n -> RowDays], how \in {"sorted", "reversed", "interleaved"} :
               frame = Reorder(RowsFrom(days, ZoneDayA, 1), how)
    /\ stations \in {1, 13}
    /\ dates = Unused
    /\ temps = Unused
    /\ mins = Unused
    /\ maxs = Unused
    /\ snows = Unused
    /\ min_days = 0
    /\ year = 0
    /\ is_current = FALSE
    /\ today = Unused
    /\ pc = "ready"
    /\ op = "none"
    /\ result = Unused

\* a detector builds its series (dates, temps) and scans it
ScanRows(name, value) ==
    /\ pc = "ready"
    /\ pc' = "done"
    /\ op' = name
    /\ dates' = GroupByDate(frame).dates
    /\ temps' = GroupByDate(frame).values
    /\ result' = value
    /\ UNCHANGED <<mins, maxs, snows, frame, min_days, year, is_current, stations>>

ColdSnapsOfRows ==
    /\ ScanRows("find_cold_snaps",
                find_cold_snaps(GroupByDate(frame).values, GroupByDate(frame).dates))
    /\ UNCHANGED today

TemperatureJumpsOfRows ==
    /\ ScanRows("find_temperature_jumps",
                find_temperature_jumps(GroupByDate(frame).values, GroupByDate(frame).dates))
    /\ UNCHANGED today

\* on frames with the same number of rows for every date that has rows
WinterOfRows ==
    \E now \in {[year |-> 2025, month |-> 1], [year |-> 2026, month |-> 1]}, c \in 1..2 :
        /\ \A d \in {frame[k][1] : k \in 1..Len(frame)} :
               Cardinality({k \in 1..Len(frame) : frame[k][1] = d}) = c
        /\ today' = now
        /\ ScanRows("analyze_winter_by_zone",
                    analyze_winter_by_zone(GroupByDate(frame).values,
                                           GroupByDate(frame).dates, c * stations, now))

NextRows ==
    \/ ColdSnapsOfRows
    \/ TemperatureJumpsOfRows
    \/ WinterOfRows

SpecRows == InitRows /\ [][NextRows]_vars

(***************************************************************************)
(* Specification SpecFirst: the first-occurrence analyses of an autumn on  *)
(* every short daily series of a zone that starts on 30 Aug 2024, two days *)
(* before the first-snow period opens.                                     *)
(***************************************************************************)
\* a day is <<minimum, snow depth>>
FirstDays == { <<NaN, NaN>>, <<0 - 300, 0>>, <<200, 100>>, <<0, 99>>, <<0 - 100, NaN>> }

InitFirst ==
    /\ \E n \in 1..MaxDay :
           \E days \in [1..n -> FirstDays] :
               /\ dates = [k \in 1..n |-> AutumnDay0(2024) + k - 1]
               /\ mins = Column(days, 1)
               /\ snows = Column(days, 2)
    /\ stations \in {4, 10}
    /\ temps = Unused
    /\ maxs = Unused
    /\ frame = Unused
    /\ min_days = 0
    /\ year = 2024
    /\ is_current = FALSE
    /\ today = Unused
    /\ pc = "ready"
    /\ op = "none"
    /\ result = Unused

FirstOccurrence(name, value) ==
    /\ pc = "ready"
    /\ pc' = "done"
    /\ op' = name
    /\ result' = value
    /\ UNCHANGED <<dates, temps, mins, maxs, snows, frame, min_days, year, is_current,
                   today, stations>>

\* the index of the entry found, 0 for None
FindFirstFrost == FirstOccurrence("find_first_frost", find_first_frost(mins))

AnalyzeAutumnFrost ==
    FirstOccurrence("analyze_autumn_frost",
                    analyze_autumn_frost(dates, mins, stations, year))

AnalyzeAutumnFirstSnow ==
    FirstOccurrence("analyze_autumn_first_snow",
                    analyze_autumn_first_snow(dates, snows, stations, year))

NextFirst ==
    \/ FindFirstFrost
    \/ AnalyzeAutumnFrost
    \/ AnalyzeAutumnFirstSnow

SpecFirst == InitFirst /\ [][NextFirst]_vars

(***************************************************************************)
(* Specification SpecVersions: both versions of analyze_winter_season on   *)
(* the same daily means, the later one first.  After the second run the    *)
(* result holds both return values.                                        *)
(***************************************************************************)
AnalyzeWinterSeasonEarlier ==
    /\ pc = "done"
    /\ pc' = "both"
    /\ result' = [later   |-> result,
                  earlier |-> analyze_winter_season_earlier(temps, dates, year)]
    /\ UNCHANGED <<dates, temps, mins, maxs, snows, frame, min_days, year, is_current,
                   today, stations, op>>

NextVersions ==
    \/ AnalyzeWinterSeason
    \/ AnalyzeWinterSeasonEarlier

SpecVersions == InitSeason /\ [][NextVersions]_vars

(***************************************************************************)
(* Specification SpecQuarters: generate_quarters and then the server's     *)
(* loop on the same date range, whose ends are days around the quarter     *)
(* boundaries of 2023 and 2024.  dates holds <<start_date, end_date>>.     *)
(***************************************************************************)
QuarterProbes ==
    {Date(y, md[1], md[2]) :
         y \in {2023, 2024},
         md \in {<<1, 1>>, <<2, 28>>, <<3, 30>>, <<3, 31>>, <<4, 1>>, <<6, 30>>, <<7, 1>>,
                 <<9, 30>>, <<10, 1>>, <<12, 31>>}}

InitQuarters ==
    /\ dates \in QuarterProbes \X QuarterProbes
    /\ temps = Unused
    /\ mins = Unused
    /\ maxs = Unused
    /\ snows = Unused
    /\ frame = Unused
    /\ min_days = 0
    /\ year = 0
    /\ is_current = FALSE
    /\ today = Unused
    /\ stations = 0
    /\ pc = "ready"
    /\ op = "none"
    /\ result = Unused

GenerateQuarters ==
    /\ pc = "ready"
    /\ pc' = "done"
    /\ op' = "generate_quarters"
    /\ result' = generate_quarters(dates[1], dates[2])
    /\ UNCHANGED <<dates, temps, mins, maxs, snows, frame, min_days, year, is_current,
                   today, stations>>

\* the result holds both lists
FetchDateRangeStreaming ==
    /\ pc = "done"
    /\ pc' = "both"
    /\ result' = [script |-> result,
                  server |-> StreamingQuartersLoop(dates[1], dates[2], <<>>)]
    /\ UNCHANGED <<dates, temps, mins, maxs, snows, frame, min_days, year, is_current,
                   today, stations, op>>

NextQuarters ==
    \/ GenerateQuarters
    \/ FetchDateRangeStreaming

SpecQuarters == InitQuarters /\ [][NextQuarters]_vars

(***************************************************************************)
(* Specification SpecMerge: one run of main with --start 2024-01-01        *)
(* --end 2024-09-30 --merge, three quarters, on an existing file of one    *)
(* station with rows on any of five days, one before the range, one in     *)
(* each quarter and one after it.  frame is the file before the run,       *)
(* dates the range asked for.                                              *)
(***************************************************************************)
MergeDays == {Date(2023, 12, 31), Date(2024, 2, 15), Date(2024, 5, 15),
              Date(2024, 8, 15), Date(2024, 10, 1)}

RowsOn(days, origin) ==
    LET d == SortedSeq(days)
    IN  [k \in 1..Len(d) |-> [date |-> d[k], fmisid |-> 101, origin |-> origin]]

\* what the fetch of one quarter can give
FetchOutcomes(quarter) ==
    LET lo == Date(quarter[1].year, quarter[1].month, quarter[1].day)
        hi == Date(quarter[2].year, quarter[2].month, quarter[2].day)
    IN  {[ok |-> FALSE, rows |-> <<>>]}
            \cup {[ok |-> TRUE, rows |-> RowsOn(days, "new")] :
                      days \in SUBSET {d \in MergeDays : lo <= d /\ d <= hi}}

InitMerge ==
    /\ dates = <<Date(2024, 1, 1), Date(2024, 9, 30)>>
    /\ \E days \in SUBSET MergeDays : frame = RowsOn(days, "existing")
    /\ temps = Unused
    /\ mins = Unused
    /\ maxs = Unused
    /\ snows = Unused
    /\ min_days = 0
    /\ year = 0
    /\ is_current = FALSE
    /\ today = Unused
    /\ stations = 1
    /\ pc = "ready"
    /\ op = "none"
    /\ result = Unused

MainMerge ==
    LET quarters == generate_quarters(dates[1], dates[2])
    IN  \E fetched \in [1..Len(quarters) ->
                           UNION {FetchOutcomes(quarters[k]) : k \in 1..Len(quarters)}] :
            /\ \A k \in 1..Len(quarters) : fetched[k] \in FetchOutcomes(quarters[k])
            /\ pc = "ready"
            /\ pc' = "done"
            /\ op' = "main --merge"
            /\ result' = main_merge(frame, fetched)
            /\ UNCHANGED <<dates, temps, mins, maxs, snows, frame, min_days, year,
                           is_current, today, stations>>

NextMerge == MainMerge

SpecMerge == InitMerge /\ [][NextMerge]_vars

(***************************************************************************)
(* Specification SpecForecasts: runs of fetch_fmi_forecasts.main, one      *)
(* after the other, from a history file that earlier runs left: no file,   *)
(* or the entries of 1, 50, 51 or 52 runs that each found a new text.      *)
(* frame is the file, today the clock, temps the page of the last run and  *)
(* result the value the last run returned.                                 *)
(***************************************************************************)
MaxFetch == 3      \* runs of the forecast fetcher after the initial history

\* the file after n runs at times 1..n that alternated between two texts
HistoryOf(n, first) ==
    [last_updated |-> IF n = 0 THEN None ELSE n,
     forecasts |-> [k \in 1..n |->
                       LET text == IF (n - k) % 2 = 0 THEN first ELSE first + 1
                       IN  [fetched_at |-> n - k + 1,
                            content_hash |-> compute_content_hash(text),
                            forecast |-> text]]]

Pages ==
    {[fetched |-> FALSE, text |-> 0]} \cup {[fetched |-> TRUE, text |-> t] : t \in 0..4}

InitForecasts ==
    /\ \E n \in {0, 1, 50, 51, 52}, first \in 1..2 :
           /\ frame = HistoryOf(n, first)
           /\ today = n + 1
           /\ year = n + MaxFetch
    /\ dates = Unused
    /\ temps = Unused
    /\ mins = Unused
    /\ maxs = Unused
    /\ snows = Unused
    /\ min_days = 0
    /\ is_current = FALSE
    /\ stations = 0
    /\ pc = "ready"
    /\ op = "none"
    /\ result = Unused

\* one run; year holds the last time a run may start
FetchForecasts ==
    \E page \in Pages :
        /\ today <= year
        /\ pc' = "done"
        /\ op' = "main"
        /\ temps' = page
        /\ frame' = main_forecasts(frame, page, today).data
        /\ result' = main_forecasts(frame, page, today).code
        /\ today' = today + 1
        /\ UNCHANGED <<dates, mins, maxs, snows, min_days, year, is_current, stations>>

NextForecasts == FetchForecasts

SpecForecasts == InitForecasts /\ [][NextForecasts]_vars

(***************************************************************************)
(* Vocabulary of the properties                                            *)
(***************************************************************************)
Done(name) == pc = "done" /\ op = name

Entries == 1..Len(temps)

PresentAt(i) == temps[i] # NaN

BelowZeroAt(i) == PresentAt(i) /\ temps[i] < 0

\* entries of the series dated within a spell
SpellDays(s) == {i \in Entries : s.start <= dates[i] /\ dates[i] <= s.end}

SetMin(S) == CHOOSE x \in S : \A y \in S : x <= y
SetMax(S) == CHOOSE x \in S : \A y \in S : x >= y

\* [a, b] is a maximal run of consecutive entries with a present value < 0
MaximalColdRun(a, b) ==
    /\ a <= b
    /\ \A i \in a..b : BelowZeroAt(i)
    /\ (a = 1 \/ ~BelowZeroAt(a - 1))
    /\ (b = Len(temps) \/ ~BelowZeroAt(b + 1))

SpellsOf(list) == {list[k] : k \in 1..Len(list)}

KeepAtLeast(list, m) == SelectSeq(list, LAMBDA s : s.duration >= m)

(***************************************************************************)
(* C1: with min_days = 1, find_all_cold_spells returns non-overlapping     *)
(* spells in strictly increasing date order, each a maximal run of         *)
(* consecutive entries with a present value < 0, and together they cover   *)
(* exactly the days whose value is present and < 0.                        *)
(***************************************************************************)
C1_ColdSpellsExact ==
    (Done("find_all_cold_spells") /\ min_days = 1) =>
        /\ \A k \in 1..Len(result) : result[k].start <= result[k].end
        /\ \A k \in 1..(Len(result) - 1) : result[k].end < result[k + 1].start
        /\ \A k \in 1..Len(result) :
               LET D == SpellDays(result[k])
               IN  /\ D # {}
                   /\ MaximalColdRun(SetMin(D), SetMax(D))
                   /\ dates[SetMin(D)] = result[k].start
                   /\ dates[SetMax(D)] = result[k].end
        /\ UNION {SpellDays(result[k]) : k \in 1..Len(result)}
               = {i \in Entries : BelowZeroAt(i)}

C1_Witness ==
    /\ Done("find_all_cold_spells")
    /\ min_days = 1
    /\ Len(result) >= 2
    /\ \E i \in Entries : ~PresentAt(i)
    /\ \E i \in Entries : PresentAt(i) /\ ~BelowZeroAt(i)

(***************************************************************************)
(* C2: with min_days = 1 the cold spells and the warm spells partition the *)
(* present days: each present day lies in exactly one spell of exactly one *)
(* list, and a day with a missing value lies in no spell.                  *)
(***************************************************************************)
C2_ColdWarmPartition ==
    ((Done("find_all_cold_spells") \/ Done("find_all_warm_spells"))
        /\ min_days = 1) =>
        LET cold == IF op = "find_all_cold_spells" THEN result
                    ELSE find_all_cold_spells(temps, dates, 1)
            warm == IF op = "find_all_warm_spells" THEN result
                    ELSE find_all_warm_spells(temps, dates, 1)
            Holders(i) ==
                {<<"cold", k>> : k \in {k \in 1..Len(cold) : i \in SpellDays(cold[k])}}
                \cup
                {<<"warm", k>> : k \in {k \in 1..Len(warm) : i \in SpellDays(warm[k])}}
        IN  \A i \in Entries :
                Cardinality(Holders(i)) = IF PresentAt(i) THEN 1 ELSE 0

C2_Witness ==
    /\ Done("find_all_warm_spells")
    /\ min_days = 1
    /\ Len(result) >= 2
    /\ Len(find_all_cold_spells(temps, dates, 1)) >= 1
    /\ \E i \in Entries : ~PresentAt(i)

(***************************************************************************)
(* C5: the minimum-duration filter is a post-step: for every m >= 1 the    *)
(* result with min_days = m is the result with min_days = 1 without the    *)
(* spells shorter than m, also when the series is shorter than m; for      *)
(* find_all_cold_spells, find_all_warm_spells and find_frost_periods.      *)
(***************************************************************************)
C5_FilterIsPostStep ==
    /\ Done("find_all_cold_spells") =>
           result = KeepAtLeast(find_all_cold_spells(temps, dates, 1), min_days)
    /\ Done("find_all_warm_spells") =>
           result = KeepAtLeast(find_all_warm_spells(temps, dates, 1), min_days)
    /\ Done("find_frost_periods") =>
           result = KeepAtLeast(find_frost_periods(temps, dates, 1), min_days)

C5_Witness ==
    /\ Done("find_all_cold_spells")
    /\ min_days >= 2
    /\ Len(result) >= 1
    /\ Len(result) < Len(find_all_cold_spells(temps, dates, 1))

\* the state holds the documented scenario series
IsScenario ==
    /\ temps = ScenarioCells
    /\ dates = [k \in 1..7 |-> Date(2024, 1, 1) + k - 1]

(***************************************************************************)
(* C6: a maximal run of exactly m qualifying days is returned with         *)
(* min_days = m and a maximal run of m - 1 days is not; the series         *)
(* [1, -1, -2, -3, -4, -5, 2] from 2024-01-01 gives with m = 5 the single  *)
(* spell 2024-01-02..2024-01-06 (duration 5, min_temp -5) and with m = 6   *)
(* no spell.                                                               *)
(***************************************************************************)
C6_OffByOneAtMinimum ==
    Done("find_all_cold_spells") =>
        /\ \A a \in Entries : \A b \in Entries :
               MaximalColdRun(a, b) =>
                   /\ (b - a + 1 = min_days =>
                          \E s \in SpellsOf(result) :
                              /\ s.start = dates[a]
                              /\ s.end = dates[b]
                              /\ s.duration = min_days)
                   /\ (b - a + 1 = min_days - 1 =>
                          \A s \in SpellsOf(result) : s.start # dates[a])
        /\ (IsScenario /\ min_days = 5) =>
               result = << [start |-> Date(2024, 1, 2), end |-> Date(2024, 1, 6),
                            duration |-> 5, min_temp |-> 0 - 500] >>
        /\ (IsScenario /\ min_days = 6) => result = <<>>

C6_Witness ==
    /\ Done("find_all_cold_spells")
    /\ IsScenario
    /\ min_days = 5
    /\ Len(result) = 1

(***************************************************************************)
(* C7: find_winter_start(temps, dates, m), and the demo's                  *)
(* find_period_start, return the start date of the first spell of          *)
(* find_all_cold_spells(temps, dates, m), and None exactly when that list  *)
(* is empty.                                                               *)
(***************************************************************************)
C7_FirstOccurrenceAgrees ==
    (Done("find_winter_start") \/ Done("find_period_start")) =>
        LET spells == find_all_cold_spells(temps, dates, min_days)
        IN  /\ (spells = <<>>) <=> (result = None)
            /\ spells # <<>> => result = spells[1].start

C7_Witness ==
    /\ Done("find_winter_start")
    /\ min_days >= 2
    /\ result # None
    /\ result # dates[1]
    /\ \E i \in Entries : ~PresentAt(i)

(***************************************************************************)
(* Spells of the detectors, as ranges of entries of the frame              *)
(***************************************************************************)
SpellOps == {"find_all_cold_spells", "find_all_warm_spells",
             "find_frost_periods", "find_slippery_periods"}

EventOps == {"find_extreme_cold", "find_cold_snaps", "find_heat_waves",
             "find_return_winters"}

IndexOf(date) == CHOOSE i \in 1..Len(dates) : dates[i] = date

\* first and last entry, and the reported duration, of the k-th result
FirstEntry(k) ==
    IF op \in SpellOps THEN IndexOf(result[k].start)
    ELSE IndexOf(result[k].start_date)

ReportedDuration(k) ==
    IF op \in SpellOps THEN result[k].duration ELSE result[k].duration_days

LastEntry(k) ==
    IF op \in SpellOps THEN IndexOf(result[k].end)
    ELSE FirstEntry(k) + ReportedDuration(k) - 1

\* the value(s) the detector that ran reads at entry i are all present
UnderlyingPresent(i) ==
    CASE op \in {"find_all_cold_spells", "find_all_warm_spells",
                 "find_cold_snaps", "find_return_winters"} -> ~isna(temps[i])
      [] op \in {"find_frost_periods", "find_extreme_cold"} -> ~isna(mins[i])
      [] op = "find_heat_waves" -> ~isna(maxs[i])
      [] op = "find_slippery_periods" -> ~isna(mins[i]) /\ ~isna(maxs[i])

(***************************************************************************)
(* C3: every spell returned by a run detector has                          *)
(* duration = (end date - start date) in days + 1, for every daily frame   *)
(* the per-zone aggregation can produce.  The code counts entries, so the  *)
(* statement fails when a calendar day between start and end has no row.   *)
(***************************************************************************)
C3_DurationIsDateSpan ==
    (pc = "done" /\ op \in SpellOps \cup EventOps) =>
        \A k \in 1..Len(result) :
            ReportedDuration(k) = dates[LastEntry(k)] - dates[FirstEntry(k)] + 1

Emitted == Done("analyze_winter_season") /\ result # NoResult

\* the maximal runs of at least 5 consecutive present values below 0
QualifyingRuns ==
    {r \in Entries \X Entries : MaximalColdRun(r[1], r[2]) /\ r[2] - r[1] + 1 >= 5}

FirstQualifyingStart == SetMin({r[1] : r \in QualifyingRuns})
LastQualifyingEnd == SetMax({r[2] : r \in QualifyingRuns})

\* a maximal run of 3 or 4 days below 0
ShortRun(a, b) == MaximalColdRun(a, b) /\ b - a + 1 \in {3, 4}

(***************************************************************************)
(* C8: in an emitted summary season_start is the start date of the         *)
(* earliest cold spell of at least 5 days and, unless the season is        *)
(* flagged current, season_end is the end date of the latest one; cold     *)
(* spells of 3 or 4 days move neither boundary.                            *)
(***************************************************************************)
C8_SeasonBoundaries ==
    Emitted =>
        /\ QualifyingRuns # {}
        /\ result[1].season_start = dates[FirstQualifyingStart]
        /\ ~is_current => result[1].season_end = dates[LastQualifyingEnd]

C8_Witness ==
    /\ Emitted
    /\ ~is_current
    /\ \E a \in Entries, b \in Entries :
           ShortRun(a, b) /\ dates[b] < result[1].season_start

(***************************************************************************)
(* C10: in an emitted summary total_days counts the entries dated from     *)
(* season_start to the end of the last cold spell of at least 5 days       *)
(* (missing values included), frost_days those of them with a present      *)
(* value < 0, and coverage_pct is frost_days / total_days x 100 rounded to *)
(* one decimal (7 of 10 days give 70.0), for current seasons too.          *)
(***************************************************************************)
C10_CoverageWindow ==
    /\ CoveragePct(7, 10) = 700
    /\ Emitted =>
           LET W == {i \in Entries : /\ result[1].season_start <= dates[i]
                                     /\ dates[i] <= dates[LastQualifyingEnd]}
               total == result[1].total_days
               frost == result[1].frost_days
           IN  /\ total = Cardinality(W)
               /\ frost = Cardinality({i \in W : BelowZeroAt(i)})
               \* coverage_pct (tenths of a percent) is a nearest tenth
               /\ 2 * (result[1].coverage_pct * total - 1000 * frost) <= total
               /\ 2 * (1000 * frost - result[1].coverage_pct * total) <= total

C10_Witness ==
    /\ Emitted
    /\ is_current
    /\ result[1].season_end = None
    /\ result[1].frost_days < result[1].total_days
    /\ result[1].coverage_pct < 1000
    /\ \E i \in Entries : /\ ~PresentAt(i)
                          /\ result[1].season_start < dates[i]
                          /\ dates[i] < dates[LastQualifyingEnd]

\* today (year, month) lies in 1 Sep y .. 31 May y+1
TodayInWindow(y) ==
    \/ today.year = y /\ today.month >= 9
    \/ today.year = y + 1 /\ today.month <= 5

LastQualifyingSpell(summary) ==
    LET q == SelectSeq(summary.cold_spells, LAMBDA sp : sp.duration >= 5)
    IN  q[Len(q)]

(***************************************************************************)
(* C9: analyze_winter_by_zone leaves season_end unset for the season of    *)
(* anchor year Y exactly when today lies in 1 Sep Y .. 31 May Y+1; every   *)
(* other season gets season_end = end of its last qualifying spell.  The   *)
(* code also treats June..August of Y+1 as inside the season of Y.         *)
(***************************************************************************)
C9_CurrentIffTodayInWindow ==
    Done("analyze_winter_by_zone") =>
        \A k \in 1..Len(result.results) :
            LET summary == result.results[k]
            IN  IF TodayInWindow(summary.season[1])
                THEN summary.season_end = None
                ELSE summary.season_end = LastQualifyingSpell(summary).end

(***************************************************************************)
(* Interruptions of a winter                                               *)
(***************************************************************************)
WarmAt(i) == PresentAt(i) /\ temps[i] >= 0

\* the maximal runs of at least 3 consecutive present values >= 0 among
\* the entries lo..hi
WarmRunsIn(lo, hi) ==
    {r \in (lo..hi) \X (lo..hi) :
         /\ r[2] - r[1] + 1 >= 3
         /\ \A i \in r[1]..r[2] : WarmAt(i)
         /\ (r[1] = lo \/ ~WarmAt(r[1] - 1))
         /\ (r[2] = hi \/ ~WarmAt(r[2] + 1))}

\* the number of entries lying in one of the runs
DaysIn(runs) ==
    Cardinality(UNION {r[1]..r[2] : r \in runs})

(***************************************************************************)
(* C11: in an emitted summary fragmentation_index is (total duration of    *)
(* the warm spells of at least 3 days found between season_start and the   *)
(* end of the last qualifying cold spell) / total_days rounded to two      *)
(* decimals, it is 0 exactly when that window holds no run of 3 or more    *)
(* present values >= 0, and warm_interruptions counts those warm spells.   *)
(***************************************************************************)
C11_FragmentationIndex ==
    Emitted =>
        \* the window: season_start to the end of the last qualifying run
        LET lo    == FirstQualifyingStart
            hi    == LastQualifyingEnd
            runs  == WarmRunsIn(lo, hi)
            warm  == DaysIn(runs)
            total == hi - lo + 1
            frag  == result[1].fragmentation_index
        IN  /\ result[1].warm_interruptions = Cardinality(runs)
            /\ SumDurations(result[1].warm_spells) = warm
            \* fragmentation_index (hundredths) is a nearest hundredth
            /\ 2 * (frag * total - 100 * warm) <= total
            /\ 2 * (100 * warm - frag * total) <= total
            /\ (frag = 0) <=> (runs = {})

\* two interruptions inside the window, a warm run outside it, and a ratio
\* that is not a whole number of hundredths
C11_Witness ==
    /\ Emitted
    /\ result[1].warm_interruptions = 2
    /\ result[1].fragmentation_index * result[1].total_days
           # 100 * SumDurations(result[1].warm_spells)
    /\ \E i \in Entries : WarmAt(i) /\ i > LastQualifyingEnd


(***************************************************************************)
(* C12: in an emitted summary the longest cold spell is the earliest spell *)
(* of maximal duration in the summary's cold_spells list, and coldest_temp *)
(* is the least min_temp of the spells of that list, whatever colder       *)
(* values the series holds outside them.                                   *)
(***************************************************************************)
C12_LongestAndColdest ==
    Emitted =>
        LET list == result[1].cold_spells
            top  == SetMax({list[k].duration : k \in 1..Len(list)})
            k0   == SetMin({k \in 1..Len(list) : list[k].duration = top})
        IN  /\ list # <<>>
            /\ result[1].cold_spells_count = Len(list)
            /\ result[1].longest_cold_spell_days = top
            /\ result[1].longest_cold_spell_start = list[k0].start
            /\ result[1].coldest_temp = SetMin({list[k].min_temp : k \in 1..Len(list)})

\* two spells share the greatest duration and a day outside every listed
\* spell is colder than coldest_temp
C12_Witness ==
    /\ Emitted
    /\ \E j, k \in 1..Len(result[1].cold_spells) :
           /\ j < k
           /\ result[1].cold_spells[j].duration = result[1].longest_cold_spell_days
           /\ result[1].cold_spells[k].duration = result[1].longest_cold_spell_days
    /\ \E i \in Entries :
           /\ PresentAt(i)
           /\ Round1(temps[i]) < result[1].coldest_temp
           /\ \A k \in 1..Len(result[1].cold_spells) :
                  i \notin SpellDays(result[1].cold_spells[k])

(***************************************************************************)
(* C13: analyze_winter_season returns no summary exactly when the series   *)
(* holds no run of at least 5 consecutive present values below 0: cold     *)
(* spells of 3 or 4 days alone give none, one run of 5 or more gives one.  *)
(***************************************************************************)
C13_NoSummaryIffNoLongRun ==
    Done("analyze_winter_season") =>
        /\ result = NoResult \/ Len(result) = 1
        /\ (result = NoResult) <=> (QualifyingRuns = {})

\* a series with cold spells, all of them of 3 or 4 days
C13_Witness ==
    /\ Done("analyze_winter_season")
    /\ result = NoResult
    /\ \E a \in Entries, b \in Entries : ShortRun(a, b) /\ b - a + 1 = 4
    /\ \E a \in Entries, b \in Entries : ShortRun(a, b) /\ b - a + 1 = 3

(***************************************************************************)
(* Daily slippery risk                                                     *)
(***************************************************************************)
\* night below 0 and day above 0
FreezeThawDay(mn, mx) == mn < 0 /\ mx > 0

\* night in (-5, 0) and day in (0, 5)
BothNearZero(mn, mx) == (0 - 500) < mn /\ mn < 0 /\ 0 < mx /\ mx < 500

\* night and day both strictly inside (-2, 2)
AroundZeroDay(mn, mx) ==
    (0 - 200) < mn /\ mn < 200 /\ (0 - 200) < mx /\ mx < 200

(***************************************************************************)
(* C14: the daily slippery risk depends on the day's own minimum and       *)
(* maximum only and is one of 0, 0.5, 1.0, 1.5: 1.5 iff -5 < min < 0 and   *)
(* 0 < max < 5; 1.0 iff min < 0 < max without both of those; 0.5 iff not   *)
(* min < 0 < max and both values lie strictly in (-2, 2); 0 otherwise and  *)
(* whenever min or max is missing (min -3.0, max 2.0 gives 1.5; min -5.0,  *)
(* max 3.0 gives 1.0).                                                     *)
(***************************************************************************)
C14_DailyRiskTable ==
    /\ calculate_daily_slippery_risk(0 - 300, 200) = 150
    /\ calculate_daily_slippery_risk(0 - 500, 300) = 100
    /\ Done("calculate_daily_slippery_risk") =>
           /\ Len(result) = Len(mins)
           /\ \A k \in 1..Len(mins) :
                  LET mn == mins[k]
                      mx == maxs[k]
                      r  == result[k]
                  IN  /\ r \in {0, 50, 100, 150}
                      /\ (mn = NaN \/ mx = NaN) => r = 0
                      /\ (mn # NaN /\ mx # NaN) =>
                             /\ (r = 150) <=> BothNearZero(mn, mx)
                             /\ (r = 100) <=> /\ FreezeThawDay(mn, mx)
                                               /\ ~BothNearZero(mn, mx)
                             /\ (r = 50) <=> /\ ~FreezeThawDay(mn, mx)
                                              /\ AroundZeroDay(mn, mx)

\* a day at the closed end of the high-risk range next to a missing day
C14_Witness ==
    /\ Done("calculate_daily_slippery_risk")
    /\ Len(mins) = 2
    /\ mins[1] = 0 - 500 /\ maxs[1] = 300 /\ result[1] = 100
    /\ mins[2] = NaN /\ result[2] = 0

(***************************************************************************)
(* Return winters                                                          *)
(***************************************************************************)
YearsOfData == {YearOf(dates[i]) : i \in Entries}

\* the entries dated 1 Mar .. 31 May of year y
SpringEntries(y) ==
    {i \in Entries : Date(y, 3, 1) <= dates[i] /\ dates[i] <= Date(y, 5, 31)}

\* the entries that open a window of 5 spring entries, all present and >= 0
OnsetCandidates(y) ==
    {i \in SpringEntries(y) :
         /\ i + 4 \in SpringEntries(y)
         /\ \A k \in i..(i + 4) : WarmAt(k)}

\* the maximal runs of at least 3 entries below 0 among the spring entries
\* that follow the entry onset
ColdRunsAfter(y, onset) ==
    LET after == {i \in SpringEntries(y) : i > onset}
    IN  {r \in after \X after :
             /\ r[2] - r[1] + 1 >= 3
             /\ \A i \in r[1]..r[2] : BelowZeroAt(i)
             /\ (r[1] - 1 \in after => ~BelowZeroAt(r[1] - 1))
             /\ (r[2] + 1 \in after => ~BelowZeroAt(r[2] + 1))}

\* the events a two-phase scan of year y reports, as <<start, duration>>
ReturnWintersExpected(y) ==
    IF OnsetCandidates(y) = {} THEN {}
    ELSE {<<dates[r[1]], r[2] - r[1] + 1>> :
              r \in ColdRunsAfter(y, SetMin(OnsetCandidates(y)))}

ReturnWintersReported(y) ==
    {<<result[k].start_date, result[k].duration_days>> :
         k \in {j \in 1..Len(result) : result[j].year = y}}

\* 1-10 Mar at 0 or above, then 11-13 Mar at -1: one spell from 11 Mar, 3 days
ReturnWinterScenario ==
    LET t == [k \in 1..13 |-> IF k <= 10 THEN 50 ELSE 0 - 100]
        d == [k \in 1..13 |-> Date(2024, 3, 1) + k - 1]
        r == find_return_winters(t, d)
    IN  /\ Len(r) = 1
        /\ r[1].start_date = Date(2024, 3, 11)
        /\ r[1].duration_days = 3

\* the reported events are listed once each, in date order
ReturnWintersOrdered ==
    \A j, k \in 1..Len(result) : j < k => result[j].start_date < result[k].start_date

(***************************************************************************)
(* C16 as stated: per year, find_return_winters reports exactly the        *)
(* maximal runs of at least 3 entries below 0 among the entries of         *)
(* 1 Mar .. 31 May dated after the spring onset (first day of the first    *)
(* window of 5 entries in that range, all present and >= 0), and nothing   *)
(* for a year without onset.  The code reports nothing either for a year   *)
(* with fewer than 10 entries in 1 Mar .. 31 May.                          *)
(***************************************************************************)
C16_ReturnWintersTwoPhase ==
    /\ ReturnWinterScenario
    /\ Done("find_return_winters") =>
           /\ ReturnWintersOrdered
           /\ \A y \in YearsOfData :
                  ReturnWintersReported(y) = ReturnWintersExpected(y)

(***************************************************************************)
(* C16 amended: the same for every year with at least 10 entries dated     *)
(* 1 Mar .. 31 May; a year with fewer such entries, like a year without    *)
(* onset, yields no event.                                                 *)
(***************************************************************************)
C16_ReturnWintersTwoPhaseFrom10 ==
    /\ ReturnWinterScenario
    /\ Done("find_return_winters") =>
           /\ ReturnWintersOrdered
           /\ \A y \in YearsOfData :
                  ReturnWintersReported(y) =
                      IF Cardinality(SpringEntries(y)) >= 10
                      THEN ReturnWintersExpected(y)
                      ELSE {}

\* a reported return winter in a spring that also has a cold run before
\* its onset
C16_Witness ==
    /\ Done("find_return_winters")
    /\ Len(result) = 1
    /\ \E i \in SpringEntries(2024) :
           /\ i + 2 \in SpringEntries(2024)
           /\ BelowZeroAt(i) /\ BelowZeroAt(i + 1) /\ BelowZeroAt(i + 2)
           /\ dates[i + 2] < result[1].start_date

(***************************************************************************)
(* Temperature jumps                                                       *)
(***************************************************************************)
\* entries i, i+1 hold present means that differ by at least 15 degrees
BigChangeAt(i) ==
    /\ PresentAt(i) /\ PresentAt(i + 1)
    /\ \/ temps[i + 1] - temps[i] >= 1500
       \/ temps[i] - temps[i + 1] >= 1500

\* entries i, i+1 are two consecutive calendar days
NextDayAt(i) == dates[i + 1] = dates[i] + 1

(***************************************************************************)
(* C17: find_temperature_jumps reports, in date order, one event for each  *)
(* pair of consecutive days whose daily means are both present and differ  *)
(* by at least 15 degrees, and none for any other pair; the event is a     *)
(* warming iff the change is > 0, else a cooling.  The code pairs each     *)
(* entry with the next entry of the series, also across dates without any  *)
(* row.                                                                    *)
(***************************************************************************)
C17_JumpsAreDayPairs ==
    Done("find_temperature_jumps") =>
        LET pairs == {i \in 1..(Len(temps) - 1) : NextDayAt(i) /\ BigChangeAt(i)}
        IN  /\ Len(result) = Cardinality(pairs)
            /\ \A j, k \in 1..Len(result) : j < k => result[j].date < result[k].date
            /\ \A k \in 1..Len(result) :
                   /\ result[k].next_date = result[k].date + 1
                   /\ \E i \in pairs :
                          /\ result[k].date = dates[i]
                          /\ result[k].change = temps[i + 1] - temps[i]
                          /\ (result[k].type = "Akillinen lampeneminen")
                                 <=> (temps[i + 1] > temps[i])

(***************************************************************************)
(* Slippery season                                                         *)
(***************************************************************************)
\* the day's risk is above 0: a freeze-thaw day or a day around zero
RiskyAt(i) ==
    /\ mins[i] # NaN /\ maxs[i] # NaN
    /\ FreezeThawDay(mins[i], maxs[i]) \/ AroundZeroDay(mins[i], maxs[i])

\* the entries of E that open a window of 7 entries of E with at least 3
\* risk days
SeasonOpeners(E) ==
    {i \in E : /\ i + 6 \in E
               /\ Cardinality({k \in i..(i + 6) : RiskyAt(k)}) >= 3}

\* the entries dated 1 Sep .. 15 Dec of the analysed year
SlipperyPeriodEntries ==
    {i \in 1..Len(dates) :
         Date(year, 9, 1) <= dates[i] /\ dates[i] <= Date(year, 12, 15)}

(***************************************************************************)
(* C15: find_slippery_season_start returns the date of the earliest entry  *)
(* i whose 7 entries i..i+6 hold at least 3 days with risk > 0, and None   *)
(* exactly when no full window of 7 entries does (always for a series of   *)
(* fewer than 7 entries); analyze_autumn_slippery_risk has no result when  *)
(* the start is None.                                                      *)
(***************************************************************************)
C15_SlipperySeasonStart ==
    /\ Done("find_slippery_season_start") =>
           LET openers == SeasonOpeners(1..Len(dates))
           IN  /\ (result = None) <=> (openers = {})
               /\ openers # {} => result = dates[SetMin(openers)]
               /\ Len(dates) < 7 => result = None
    /\ Done("analyze_autumn_slippery_risk") =>
           LET openers == SeasonOpeners(SlipperyPeriodEntries)
           IN  /\ openers = {} => result = NoResult
               /\ result # NoResult =>
                      result[1].season_start = dates[SetMin(openers)]

\* the season starts on a day without risk, the first window having too few
\* risk days
C15_Witness ==
    /\ Done("find_slippery_season_start")
    /\ Len(dates) > 7
    /\ result = dates[2]
    /\ ~RiskyAt(2)

(***************************************************************************)
(* Two runs of the winter driver                                           *)
(***************************************************************************)
\* the step is a second run of the driver on the frame of the first
SecondRun == pc = "done" /\ pc' = "again" /\ op = "analyze_winter_by_zone"

\* a summary without its season_end
WithoutEnd(summary) == [summary EXCEPT !.season_end = None]

\* two results of the driver that differ in no field but season_end
SameButSeasonEnd(r1, r2) ==
    /\ r1.none = r2.none
    /\ Len(r1.results) = Len(r2.results)
    /\ \A k \in 1..Len(r1.results) :
           WithoutEnd(r1.results[k]) = WithoutEnd(r2.results[k])

Zone(z) == IF z \in DOMAIN frame THEN frame[z] ELSE NoRows

\* the entries of zone z dated lo .. hi
ZoneDays(z, lo, hi) ==
    {i \in 1..Len(Zone(z).dates) : lo <= Zone(z).dates[i] /\ Zone(z).dates[i] <= hi}

\* the rows of the data frame behind a set of daily entries
RowsOf(E) == Cardinality(E) * stations

ZoneRiskyAt(z, i) ==
    /\ Zone(z).mins[i] # NaN /\ Zone(z).maxs[i] # NaN
    /\ \/ FreezeThawDay(Zone(z).mins[i], Zone(z).maxs[i])
       \/ AroundZeroDay(Zone(z).mins[i], Zone(z).maxs[i])

\* 1 Aug .. 31 Dec holds a night below 0
HasFrost(z, y) ==
    \E i \in ZoneDays(z, Date(y, 8, 1), Date(y, 12, 31)) :
        Zone(z).mins[i] # NaN /\ Zone(z).mins[i] < 0

\* 1 Sep .. 31 Dec holds a day with at least 1 cm of snow
HasSnow(z, y) ==
    \E i \in ZoneDays(z, Date(y, 9, 1), Date(y, 12, 31)) :
        Zone(z).snows[i] # NaN /\ Zone(z).snows[i] >= 100

\* 1 Sep .. 15 Dec holds 7 entries in a row with 3 risk days
HasSlipperySeason(z, y) ==
    LET E == ZoneDays(z, Date(y, 9, 1), Date(y, 12, 15))
    IN  \E i \in E : /\ i + 6 \in E
                      /\ Cardinality({k \in i..(i + 6) : ZoneRiskyAt(z, k)}) >= 3

\* 1 Sep y .. 31 May y+1 holds 5 entries in a row with a mean below 0
HasWinter(z, y) ==
    LET E == ZoneDays(z, Date(y, 9, 1), Date(y + 1, 5, 31))
    IN  \E i \in E : /\ i + 4 \in E
                      /\ \A k \in i..(i + 4) :
                             Zone(z).air[k] # NaN /\ Zone(z).air[k] < 0

FrostProduces(z, y) ==
    RowsOf(ZoneDays(z, Date(y, 8, 1), Date(y, 12, 31))) >= 30 /\ HasFrost(z, y)

SnowProduces(z, y) ==
    RowsOf(ZoneDays(z, Date(y, 9, 1), Date(y, 12, 31))) >= 30 /\ HasSnow(z, y)

SlipperyProduces(z, y) ==
    /\ RowsOf(ZoneDays(z, Date(y, 9, 1), Date(y, 12, 15))) >= 30
    /\ HasSlipperySeason(z, y)

WinterProduces(z, y) ==
    /\ RowsOf(ZoneDays(z, Date(y, 9, 1), Date(y + 1, 5, 31))) >= 50
    /\ HasWinter(z, y)

\* the years of the dates of a set of zones, ascending
YearsIn(zs) ==
    SortedSeq(UNION {{YearOf(Zone(z).dates[i]) : i \in 1..Len(Zone(z).dates)} :
                         z \in zs})

\* the four zones in list order and, within a zone, the years of the frame
AutumnOrder ==
    LET years == YearsIn(DOMAIN frame)
    IN  [k \in 1..(4 * Len(years)) |->
            <<AUTUMN_ZONES[((k - 1) \div Len(years)) + 1],
              years[((k - 1) % Len(years)) + 1]>>]

ZoneYears(z) == [j \in 1..Len(YearsIn({z})) |-> <<z, YearsIn({z})[j]>>]

\* the zones in sorted order and, within a zone, the years of its own rows
WinterOrder ==
    ZoneYears(SORTED_ZONES[1]) \o ZoneYears(SORTED_ZONES[2])
        \o ZoneYears(SORTED_ZONES[3]) \o ZoneYears(SORTED_ZONES[4])

\* the zone and year of each result of the list, in list order
ResultKeys ==
    [k \in 1..Len(result) |->
        <<result[k].zone,
          IF op = "run_winter_analysis" THEN result[k].season[1] ELSE result[k].year>>]

(***************************************************************************)
(* C19: each driver (winter, first frost, slippery risk, first snow)       *)
(* visits every zone and year, skips those with insufficient data or       *)
(* without a qualifying event, and returns the results of exactly the      *)
(* others, once each, in iteration order.                                  *)
(***************************************************************************)
C19_FailureIsolation ==
    /\ Done("run_first_frost_analysis") =>
           ResultKeys = SelectSeq(AutumnOrder, LAMBDA p : FrostProduces(p[1], p[2]))
    /\ Done("run_slippery_risk_analysis") =>
           ResultKeys = SelectSeq(AutumnOrder, LAMBDA p : SlipperyProduces(p[1], p[2]))
    /\ Done("run_first_snow_analysis") =>
           ResultKeys = SelectSeq(AutumnOrder, LAMBDA p : SnowProduces(p[1], p[2]))
    /\ Done("run_winter_analysis") =>
           ResultKeys = SelectSeq(WinterOrder, LAMBDA p : WinterProduces(p[1], p[2]))

\* the first and the last zone and year have a result, the one between them
\* has rows but none
C19_Witness ==
    /\ Done("run_first_frost_analysis")
    /\ ResultKeys = << <<"Pohjois-Suomi", 2023>>, <<"Lappi", 2024>> >>
    /\ ZoneDays("Pohjois-Suomi", Date(2024, 8, 1), Date(2024, 12, 31)) # {}

(***************************************************************************)
(* C20: analyze_autumn_frost, analyze_autumn_slippery_risk and             *)
(* analyze_autumn_first_snow have no result for a zone and year whose      *)
(* daily series (the days of the analysed period that have data) has fewer *)
(* than 30 days, and the winter driver has none for a season of fewer than *)
(* 5 days.  The autumn analyses count the rows of the data frame, one per  *)
(* station and day, instead of the days.                                   *)
(***************************************************************************)
C20_InsufficientDataNoResult ==
    \A k \in 1..Len(ResultKeys) :
        LET z == ResultKeys[k][1]
            y == ResultKeys[k][2]
        IN  /\ Done("run_first_frost_analysis") =>
                   Cardinality(ZoneDays(z, Date(y, 8, 1), Date(y, 12, 31))) >= 30
            /\ Done("run_slippery_risk_analysis") =>
                   Cardinality(ZoneDays(z, Date(y, 9, 1), Date(y, 12, 15))) >= 30
            /\ Done("run_first_snow_analysis") =>
                   Cardinality(ZoneDays(z, Date(y, 9, 1), Date(y, 12, 31))) >= 30
            /\ Done("run_winter_analysis") =>
                   Cardinality(ZoneDays(z, Date(y, 9, 1), Date(y + 1, 5, 31))) >= 5

(***************************************************************************)
(* Vocabulary of C21: the rows a detector is given and the series it scans *)
(***************************************************************************)
RowDates == {frame[k][1] : k \in 1..Len(frame)}

\* some row is not later than the row before it
RowsOutOfOrder == \E k \in 1..(Len(frame) - 1) : frame[k + 1][1] <= frame[k][1]

StrictlyIncreasing(d) == \A k \in 1..(Len(d) - 1) : d[k] < d[k + 1]

QualifiesAt(i) ==
    IF op = "find_cold_snaps" THEN ~isna(temps[i]) /\ temps[i] <= 0 - 1500
    ELSE ~isna(maxs[i]) /\ maxs[i] >= 2500

\* entries a..b qualify and the run cannot be extended on either side
MaximalQualifyingRun(a, b) ==
    /\ \A i \in a..b : QualifiesAt(i)
    /\ a = 1 \/ ~QualifiesAt(a - 1)
    /\ b = Len(dates) \/ ~QualifiesAt(b + 1)

\* what a greedy scan with minimum length 3 extracts
RunsOfThree ==
    {r \in (1..Len(dates)) \X (1..Len(dates)) :
         r[2] - r[1] + 1 >= 3 /\ MaximalQualifyingRun(r[1], r[2])}

(***************************************************************************)
(* C22: find_cold_snaps (mean <= -15) and find_heat_waves (max >= 25)      *)
(* report exactly the maximal runs of at least 3 consecutive qualifying    *)
(* entries, each once, in date order, with its first day and its full      *)
(* duration, a run that ends on the last entry included; no run of 1 or 2  *)
(* entries is reported and no spell starts inside a longer run.            *)
(***************************************************************************)
C22_WindowThenExtendIsGreedy ==
    (Done("find_cold_snaps") \/ Done("find_heat_waves")) =>
        LET spells == [k \in 1..Len(result) |-> <<FirstEntry(k), LastEntry(k)>>]
            runs   == RunsOfThree
        IN  /\ {spells[k] : k \in 1..Len(result)} = runs
            /\ Len(result) = Cardinality(runs)
            /\ \A k \in 1..(Len(result) - 1) : spells[k][2] < spells[k + 1][1]

\* a run of two entries goes unreported and a run of three or more that
\* ends on the last entry is reported
C22_Witness ==
    /\ Done("find_cold_snaps")
    /\ \E a \in 1..(Len(dates) - 1) : MaximalQualifyingRun(a, a + 1)
    /\ Len(result) = 1
    /\ LastEntry(1) = Len(dates)
    /\ ReportedDuration(1) >= 3

(***************************************************************************)
(* Vocabulary of C23: frost nights and snow days of the series             *)
(***************************************************************************)
FrostNights == {i \in 1..Len(dates) : mins[i] # NaN /\ mins[i] < 0}

\* the first-snow period of the year opens on 1 Sep
SnowDays ==
    {i \in 1..Len(dates) : /\ dates[i] >= Date(year, 9, 1)
                           /\ snows[i] # NaN /\ snows[i] >= 100}

\* the analysis goes on to its scan: the zone has at least 30 rows
ReachesScan(entries) == Cardinality(entries) * stations >= 30

C24_VersionsAgree ==
    pc = "both" =>
        /\ result.later = NoResult <=> result.earlier = NoResult
        /\ result.later # NoResult =>
               /\ WithoutEnd(result.later[1]) = WithoutEnd(result.earlier[1])
               /\ ~is_current => result.later[1].season_end = result.earlier[1].season_end
               /\ is_current =>
                      /\ result.later[1].season_end = None
                      /\ result.earlier[1].season_end # None

\* both versions summarise a current season that has a warm interruption
C24_Witness ==
    /\ pc = "both"
    /\ is_current
    /\ result.later # NoResult
    /\ result.earlier # NoResult
    /\ result.earlier[1].warm_interruptions >= 1
    /\ result.earlier[1].season_end = dates[Len(dates)]

(***************************************************************************)
(* Vocabulary of C25..C27: the winter summaries returned so far, by either *)
(* version, and the statistics window of the series                        *)
(***************************************************************************)
Summaries ==
    IF pc = "done" THEN result
    ELSE IF pc = "both" THEN result.later \o result.earlier
    ELSE <<>>

\* the last day of the statistics window: the end of the last cold run of
\* at least 5 days
WindowEnd == dates[LastQualifyingEnd]

\* the spell lies between season_start and the end of the last listed spell
\* of at least 5 days
InWindow(s, spell) ==
    spell.start >= s.season_start /\ spell.end <= LastQualifyingSpell(s).end

(***************************************************************************)
(* C25: in every emitted winter summary frost_days + the sum of the        *)
(* durations of the warm spells in warm_spells <= total_days; hence        *)
(* coverage and fragmentation, as fractions of the window, never add up to *)
(* more than 1 (the reported fields, rounded to 0.1 % and 0.01, by no more *)
(* than their rounding).                                                   *)
(***************************************************************************)
C25_FrostAndWarmDisjoint ==
    \A k \in 1..Len(Summaries) :
        LET s    == Summaries[k]
            warm == SumSeq([j \in 1..Len(s.warm_spells) |-> s.warm_spells[j].duration])
        IN  /\ s.frost_days + warm <= s.total_days
            /\ s.coverage_pct + 10 * s.fragmentation_index <= 1005

\* a window of frost days, warm spell days and days that are neither
C25_Witness ==
    /\ pc = "both"
    /\ result.later # NoResult
    /\ result.later[1].warm_interruptions >= 1
    /\ result.later[1].frost_days >= 10
    /\ result.later[1].frost_days
           + SumSeq([j \in 1..Len(result.later[1].warm_spells) |->
                        result.later[1].warm_spells[j].duration])
         < result.later[1].total_days

(***************************************************************************)
(* C26: in every emitted winter summary the statistics window starts and   *)
(* ends on a frost day: total_days >= 5, frost_days >= 5, coverage_pct > 0, *)
(* longest_cold_spell_days >= 5, and every warm spell in warm_spells lies   *)
(* strictly inside the window: it starts after season_start and ends       *)
(* before the end of the last cold spell of at least 5 days.               *)
(***************************************************************************)
C26_WindowBoundedByFrost ==
    \A k \in 1..Len(Summaries) :
        LET s == Summaries[k]
        IN  /\ s.total_days >= 5
            /\ s.frost_days >= 5
            /\ s.coverage_pct > 0
            /\ s.longest_cold_spell_days >= 5
            /\ BelowZeroAt(IndexOf(s.season_start))
            /\ BelowZeroAt(LastQualifyingEnd)
            /\ \A j \in 1..Len(s.warm_spells) :
                   /\ s.warm_spells[j].start > s.season_start
                   /\ s.warm_spells[j].end < WindowEnd

\* a summary with a warm spell between two long cold spells, and three
\* warm days after the window
C26_Witness ==
    /\ pc = "done"
    /\ result # NoResult
    /\ Len(result[1].warm_spells) = 1
    /\ LastQualifyingEnd + 3 = Len(dates)
    /\ \A i \in (LastQualifyingEnd + 1)..Len(dates) : PresentAt(i) /\ temps[i] >= 0

(***************************************************************************)
(* C27 as stated: in every emitted winter summary, every spell listed in   *)
(* cold_spells (and therefore the longest cold spell and the spell that    *)
(* supplies coldest_temp) lies within the statistics window, so that the   *)
(* sum of the listed cold-spell durations never exceeds frost_days.  A     *)
(* listed spell of 3 or 4 days can lie outside the window.                 *)
(***************************************************************************)
C27_ColdSpellsInWindow ==
    \A k \in 1..Len(Summaries) :
        LET s == Summaries[k]
        IN  /\ \A j \in 1..Len(s.cold_spells) : InWindow(s, s.cold_spells[j])
            /\ SumSeq([j \in 1..Len(s.cold_spells) |-> s.cold_spells[j].duration])
                   <= s.frost_days

(***************************************************************************)
(* C27, amended: in every emitted winter summary, every spell listed in    *)
(* cold_spells that has at least 5 days (and therefore the longest cold    *)
(* spell) lies within the statistics window; a listed spell of 3 or 4      *)
(* days, which may supply coldest_temp, can lie before season_start or     *)
(* after the end of the last spell of at least 5 days; the sum of the      *)
(* durations of the listed spells that lie within the window never exceeds *)
(* frost_days.                                                             *)
(***************************************************************************)
C27_LongColdSpellsInWindow ==
    \A k \in 1..Len(Summaries) :
        LET s      == Summaries[k]
            inside == SelectSeq(s.cold_spells, LAMBDA spell : InWindow(s, spell))
        IN  /\ \A j \in 1..Len(s.cold_spells) :
                   \/ InWindow(s, s.cold_spells[j])
                   \/ /\ s.cold_spells[j].duration \in {3, 4}
                      /\ \/ s.cold_spells[j].end < s.season_start
                         \/ s.cold_spells[j].start > LastQualifyingSpell(s).end
            /\ s.longest_cold_spell_start >= s.season_start
            /\ s.longest_cold_spell_start <= LastQualifyingSpell(s).end
            /\ SumSeq([j \in 1..Len(inside) |-> inside[j].duration]) <= s.frost_days

\* the coldest listed spell has 3 or 4 days and ends before the season starts
C27_Witness ==
    /\ pc = "done"
    /\ result # NoResult
    /\ \E j \in 1..Len(result[1].cold_spells) :
           /\ result[1].cold_spells[j].end < result[1].season_start
           /\ result[1].cold_spells[j].min_temp = result[1].coldest_temp
           /\ \A i \in 1..Len(result[1].cold_spells) :
                  i # j => result[1].cold_spells[i].min_temp > result[1].coldest_temp

(***************************************************************************)
(* Vocabulary of C28: the intervals of a list of quarters, as day numbers  *)
(***************************************************************************)
\* strptime of a "%Y-%m-%d" text
Parsed(text) == Date(text.year, text.month, text.day)

\* the calendar quarter of a day: <<year, 1..4>>
QuarterOf(z) == <<Civil(z).year, (Civil(z).month + 2) \div 3>>

(***************************************************************************)
(* C28: generate_quarters(start, end) terminates and returns an ordered    *)
(* list of intervals that exactly partitions [start, end]: the first       *)
(* begins at start, the last ends at end, each begins the day after the    *)
(* previous one ends, none crosses a calendar-quarter boundary, and the    *)
(* list is empty iff start > end; the loop of fetch_date_range_streaming   *)
(* produces the same list.                                                 *)
(***************************************************************************)
C28_QuartersPartition ==
    /\ pc = "done" =>
           LET n     == Len(result)
               lo    == [k \in 1..n |-> Parsed(result[k][1])]
               hi    == [k \in 1..n |-> Parsed(result[k][2])]
           IN  /\ n = 0 <=> dates[1] > dates[2]
               /\ n > 0 => lo[1] = dates[1] /\ hi[n] = dates[2]
               /\ \A k \in 1..n : lo[k] <= hi[k] /\ QuarterOf(lo[k]) = QuarterOf(hi[k])
               /\ \A k \in 1..(n - 1) : lo[k + 1] = hi[k] + 1
    /\ pc = "both" => result.server = result.script

\* a range from the middle of a quarter over a year end into another quarter
C28_Witness ==
    /\ pc = "both"
    /\ Len(result.script) = 5
    /\ result.script[1] = <<[year |-> 2023, month |-> 6, day |-> 30],
                            [year |-> 2023, month |-> 6, day |-> 30]>>
    /\ result.script[5][2] = [year |-> 2024, month |-> 4, day |-> 1]
    /\ result.server[3][2] = [year |-> 2023, month |-> 12, day |-> 31]

(***************************************************************************)
(* Vocabulary of C29: the days of the rows of a file                       *)
(***************************************************************************)
DaysOf(rows) == {rows[k].date : k \in 1..Len(rows)}

(***************************************************************************)
(* C29: in merge mode, for any combination of per-quarter fetch successes  *)
(* and failures, every existing row dated outside the date range of the    *)
(* newly fetched data is kept unchanged, and no day that had observations  *)
(* in the existing file ends up with none unless the new fetch supplied    *)
(* rows for that day.  A day between two fetched days loses its rows       *)
(* without being fetched.                                                  *)
(***************************************************************************)
C29_RemovedOnlyWhereFetched ==
    pc = "done" =>
        /\ \A k \in 1..Len(frame) :
               (\A d \in DaysOf(result.new_df) : frame[k].date < d)
                   \/ (\A d \in DaysOf(result.new_df) : frame[k].date > d)
               => \E j \in 1..Len(result.file) : result.file[j] = frame[k]
        /\ \A d \in DaysOf(frame) :
               d \in DaysOf(result.file) \/ d \in DaysOf(result.new_df)


(***************************************************************************)
(* C30.  After any sequence of runs of fetch_fmi_forecasts.main the stored *)
(* history is ordered newest first, holds at most 52 entries and has no    *)
(* two adjacent entries with the same content_hash; a run whose hash       *)
(* equals that of the newest stored entry changes only last_updated, and   *)
(* any other successful run inserts exactly one entry at the front and     *)
(* drops only entries beyond the 52nd.  A failed run leaves the file as it *)
(* was.                                                                    *)
(***************************************************************************)
HistoryInOrder ==
    LET h == frame.forecasts
    IN  /\ Len(h) <= 52
        /\ \A k \in 1..(Len(h) - 1) :
               /\ h[k].fetched_at > h[k + 1].fetched_at
               /\ h[k].content_hash # h[k + 1].content_hash

RunKeepsHistory ==
    LET old == frame.forecasts
        new == frame'.forecasts
        hash == compute_content_hash(temps'.text)
    IN  IF result' = 1
        THEN frame' = frame
        ELSE IF old # <<>> /\ old[1].content_hash = hash
        THEN /\ new = old
             /\ frame'.last_updated = today
        ELSE /\ Len(new) = Min2(52, Len(old) + 1)
             /\ new[1].content_hash = hash
             /\ new[1].fetched_at = today
             /\ frame'.last_updated = today
             /\ \A k \in 2..Len(new) : new[k] = old[k - 1]

C30_HistoryNewestFirst ==
    /\ [](pc = "done" => HistoryInOrder)
    /\ [][op' = "main" => RunKeepsHistory]_vars

\* a run found a new text when the file held 52 entries: the oldest entry
\* went, the others moved down one place
C30_Witness ==
    /\ pc = "done"
    /\ result = 0
    /\ Len(frame.forecasts) = 52
    /\ frame.forecasts[1].fetched_at = 53
    /\ frame.forecasts[52].fetched_at = 2

=============================================================================
